---- MODULE Spec2Model ----
(***************************************************************************)
(* A model of src/app.py, the classroom project portal: the database       *)
(* tables the request handlers read and write, the mail transport, the     *)
(* upload directory, and one action per request handler.  An action is one *)
(* whole request, processed alone; where two requests are followed through *)
(* their interleaved steps, inflight holds the position of each.           *)
(***************************************************************************)
EXTENDS Integers, Sequences, FiniteSets, TLC

VARIABLES
    users,          \* User table: id -> [role, email, parent_email]
    classrooms,     \* Classroom table: id -> [teacher_id]
    enrollments,    \* ClassroomStudent rows: [classroom_id, student_id, points]
    projects,       \* Project table: id -> row
    challenges,     \* Challenge table: id -> [classroom_id, points]
    submissions,    \* ChallengeSubmission rows, in id order
    shares,         \* ProjectShare rows (share_code is unique)
    notifications,  \* ParentNotification rows, in id order
    email_logs,     \* EmailLog rows, in id order
    outbox,         \* messages the latest e-mail request got mail.send to accept
    disk,           \* upload folder: directory name -> set of files (paths)
    response,       \* what the last request (or call) returned
    inflight        \* requests between two of their steps: slot -> position and locals

dbvars == <<users, classrooms, enrollments, projects, challenges,
            submissions, shares, notifications, email_logs>>
vars == <<users, classrooms, enrollments, projects, challenges, submissions,
          shares, notifications, email_logs, outbox, disk, response,
          inflight>>

\* A NULL integer column (ids start at 1) and a NULL string column.
NULL == 0
None == "None"
\* A NULL or empty path column (file_path, project_dir, main_file, ...).
NoPath == << >>

\* User.role values (src/app.py:48).
Roles == {"student", "teacher", "staff", "parent", "admin"}

\* The visibility values check_project_access names, and two that it does
\* not name: project_settings stores whatever string the form carries.
KnownVisibility == {"classroom", "public", "private", "parents"}
UnknownVisibility == {"", "friends"}

UserIds == DOMAIN users
ProjectIds == DOMAIN projects
ClassroomIds == DOMAIN classrooms

-----------------------------------------------------------------------------
(* Queries *)

\* ClassroomStudent.query.filter_by(classroom_id, student_id).first() is not None
Enrolled(classroom_id, student_id) ==
    \E e \in enrollments :
        e.classroom_id = classroom_id /\ e.student_id = student_id

\* ParentNotification.query.filter_by(project_id, parent_id).first() is not None
HasNotification(project_id, parent_id) ==
    \E i \in 1..Len(notifications) :
        /\ notifications[i].project_id = project_id
        /\ notifications[i].parent_id = parent_id

-----------------------------------------------------------------------------
(* check_project_access, src/app.py:769-809 *)

\* visibility == 'classroom' (the admin test inside is kept as written)
classroom_rule_enrolled_only(current_user, project) ==
    LET role == users[current_user].role
        proj == projects[project] IN
    IF role \in {"teacher", "staff", "admin"}
    THEN IF role = "admin" THEN TRUE
         ELSE classrooms[proj.classroom_id].teacher_id = current_user
    ELSE Enrolled(proj.classroom_id, current_user)

classroom_rule(current_user, project) ==
    LET role == users[current_user].role
        proj == projects[project] IN
    IF role \in {"teacher", "staff", "admin"}
    THEN IF role = "admin" THEN TRUE
         ELSE classrooms[proj.classroom_id].teacher_id = current_user
    ELSE IF role = "parent"
    THEN HasNotification(project, current_user)
    ELSE Enrolled(proj.classroom_id, current_user)

\* visibility == 'parents'
parents_rule_classroom_teacher_only(current_user, project) ==
    LET role == users[current_user].role
        proj == projects[project] IN
    IF role \in {"teacher", "staff", "admin"}
    THEN IF role = "admin" THEN TRUE
         ELSE classrooms[proj.classroom_id].teacher_id = current_user
    ELSE IF role = "parent"
    THEN HasNotification(project, current_user)
    ELSE FALSE

parents_rule(current_user, project) ==
    LET role == users[current_user].role
        proj == projects[project] IN
    IF role \in {"teacher", "staff", "admin"}
    THEN IF role = "admin" THEN TRUE
         ELSE \/ classrooms[proj.classroom_id].teacher_id = current_user
              \/ proj.tagged_teacher_id = current_user
    ELSE IF role = "parent"
    THEN HasNotification(project, current_user)
    ELSE FALSE

\* the private test placed after the classroom-teacher test
check_project_access_teacher_first(current_user, project) ==
    LET role == users[current_user].role
        proj == projects[project] IN
    IF role = "admin" THEN TRUE
    ELSE IF proj.student_id = current_user THEN TRUE
    ELSE IF classrooms[proj.classroom_id].teacher_id = current_user THEN TRUE
    ELSE IF proj.visibility = "public" THEN TRUE
    ELSE IF proj.visibility = "private" THEN FALSE
    ELSE IF proj.visibility = "classroom" THEN classroom_rule(current_user, project)
    ELSE IF proj.visibility = "parents" THEN parents_rule(current_user, project)
    ELSE FALSE

\* 'public' limited to the members of the classroom
check_project_access_public_members(current_user, project) ==
    LET role == users[current_user].role
        proj == projects[project] IN
    IF role = "admin" THEN TRUE
    ELSE IF proj.student_id = current_user THEN TRUE
    ELSE IF proj.visibility = "private" THEN FALSE
    ELSE IF proj.visibility \in {"classroom", "public"}
    THEN classroom_rule(current_user, project)
    ELSE IF proj.visibility = "parents" THEN parents_rule(current_user, project)
    ELSE FALSE

\* the last return granting instead of denying
check_project_access_fail_open(current_user, project) ==
    LET role == users[current_user].role
        proj == projects[project] IN
    IF role = "admin" THEN TRUE
    ELSE IF proj.student_id = current_user THEN TRUE
    ELSE IF proj.visibility = "public" THEN TRUE
    ELSE IF proj.visibility = "private" THEN FALSE
    ELSE IF proj.visibility = "classroom" THEN classroom_rule(current_user, project)
    ELSE IF proj.visibility = "parents" THEN parents_rule(current_user, project)
    ELSE TRUE

check_project_access(current_user, project) ==
    LET role == users[current_user].role
        proj == projects[project] IN
    IF role = "admin" THEN TRUE
    ELSE IF proj.student_id = current_user THEN TRUE
    ELSE IF proj.visibility = "public" THEN TRUE
    ELSE IF proj.visibility = "private" THEN FALSE
    ELSE IF proj.visibility = "classroom" THEN classroom_rule(current_user, project)
    ELSE IF proj.visibility = "parents" THEN parents_rule(current_user, project)
    ELSE FALSE

\* One evaluation of check_project_access(project) for current_user: the
\* function only runs queries; what it returned is kept in response.
CheckAccess_marks_viewed(current_user, project) ==
    /\ response' = [handler |-> "check_project_access", user |-> current_user,
                    project |-> project,
                    granted |-> check_project_access(current_user, project)]
    /\ notifications' =
          [i \in 1..Len(notifications) |->
              IF /\ notifications[i].project_id = project
                 /\ notifications[i].parent_id = current_user
              THEN [notifications[i] EXCEPT !.viewed = TRUE]
              ELSE notifications[i]]
    /\ UNCHANGED <<users, classrooms, enrollments, projects, challenges,
                   submissions, shares, email_logs, outbox, disk>>

CheckAccess(current_user, project) ==
    /\ response' = [handler |-> "check_project_access", user |-> current_user,
                    project |-> project,
                    granted |-> check_project_access(current_user, project)]
    /\ UNCHANGED <<dbvars, outbox, disk>>

-----------------------------------------------------------------------------
(* Rows as the handlers create them *)

\* User(...), src/app.py:284-290
UserRow(role, email, parent_email) ==
    [role |-> role, email |-> email, parent_email |-> parent_email]

\* ClassroomStudent(classroom_id, student_id), points default 0, src/app.py:407
EnrollmentRow(classroom_id, student_id) ==
    [classroom_id |-> classroom_id, student_id |-> student_id, points |-> 0]

\* Project(...), src/app.py:512-523: visibility 'classroom', the classroom's
\* teacher tagged, likes and views 0, the storage columns NULL until set
ProjectRow(student_id, classroom_id, tagged_teacher_id) ==
    [student_id |-> student_id, classroom_id |-> classroom_id,
     tagged_teacher_id |-> tagged_teacher_id, visibility |-> "classroom",
     project_type |-> "html", file_path |-> NoPath, project_dir |-> NoPath,
     main_file |-> NoPath, scratch_link |-> None, screenshot_path |-> NoPath,
     subject_id |-> NULL, assignment_id |-> NULL, submitted_at |-> NULL,
     is_student_created |-> TRUE, likes |-> 0, views |-> 0]

\* ParentNotification(...), viewed default False, src/app.py:1385-1391
NotificationRow(project_id, parent_id, teacher_id, student_id, share_code) ==
    [project_id |-> project_id, parent_id |-> parent_id,
     teacher_id |-> teacher_id, student_id |-> student_id,
     share_code |-> share_code, viewed |-> FALSE]

NoResponse == [handler |-> "none"]

\* no request is between two of its steps
NoRequests == << >>

-----------------------------------------------------------------------------
(* Responses.  status is the HTTP status; flash is the message the handler *)
(* flashes (None when it flashes nothing).                                 *)

Resp(handler, status, flash) ==
    [handler |-> handler, status |-> status, flash |-> flash]

\* Project.query.get_or_404(project_id): an id with no row answers 404
NoSuchProject(project_id) == project_id \notin ProjectIds

\* an id no row of the Project table has
MissingProjectId == Cardinality(ProjectIds) + 1

-----------------------------------------------------------------------------
(* Paths.  A path is the sequence of its segments ('a/b.html' is           *)
(* <<"a", "b.html">>); a per-upload directory name and a stored file name  *)
(* are the tuples of the parts the f-strings put together.                 *)

\* f"project_{current_user.id}_{int(datetime.now().timestamp())}"
ProjectDirName(user_id, now) == <<"project", user_id, now>>

\* f"screenshot_{id}_{datetime.now().timestamp()}.{ext}"
ScreenshotName(id, now, ext) == <<"screenshot", id, now, ext>>

\* app.config['SCREENSHOT_FOLDER']
ScreenshotFolder == <<"static", "screenshots">>

ALLOWED_IMAGE_EXTENSIONS == {"png", "jpg", "jpeg", "gif", "svg"}

\* allowed_image_file, for a file name given by its (lower-cased) extension;
\* "" is a name without a dot
allowed_image_file(ext) == ext # "" /\ ext \in ALLOWED_IMAGE_EXTENSIONS

\* the segments whose text holds '..' as a substring
HasDotDot(segment) == segment \in {"..", "a..b"}

\* os.path.normpath on a relative POSIX path
RECURSIVE normparts(_, _)
normparts(path, acc) ==
    IF path = << >> THEN acc
    ELSE LET comp == Head(path) IN
         IF comp \in {"", "."} THEN normparts(Tail(path), acc)
         ELSE IF comp = ".." /\ acc # << >> /\ acc[Len(acc)] # ".."
         THEN normparts(Tail(path), SubSeq(acc, 1, Len(acc) - 1))
         ELSE normparts(Tail(path), Append(acc, comp))

normpath(path) ==
    LET comps == normparts(path, << >>) IN
    IF comps = << >> THEN <<".">> ELSE comps

\* '..' in safe_path
ContainsDotDot(path) == \E i \in 1..Len(path) : HasDotDot(path[i])

\* os.path.exists(file_full_path) and os.path.isfile(file_full_path)
IsFile(project_dir, safe_path) ==
    project_dir \in DOMAIN disk /\ safe_path \in disk[project_dir]

\* file.save(filepath) into a directory that exists
SaveFile(folder, name) ==
    [d \in DOMAIN disk \cup {folder} |->
        IF d = folder
        THEN (IF folder \in DOMAIN disk THEN disk[folder] ELSE {}) \cup {name}
        ELSE disk[d]]

-----------------------------------------------------------------------------
(* project_settings, src/app.py:1166-1197 (POST) *)

project_settings(current_user, project_id, visibility, tagged_teacher_id, screenshot, now) ==
    IF NoSuchProject(project_id)
    THEN /\ response' = Resp("project_settings", 404, None)
         /\ UNCHANGED <<dbvars, outbox, disk>>
    ELSE IF /\ projects[project_id].student_id # current_user
            /\ users[current_user].role # "admin"
    THEN /\ response' = Resp("project_settings", 302,
                             "You can only edit your own projects")
         /\ UNCHANGED <<dbvars, outbox, disk>>
    ELSE LET tagged ==
                 IF tagged_teacher_id # NULL
                 THEN IF /\ tagged_teacher_id \in UserIds
                         /\ users[tagged_teacher_id].role = "teacher"
                      THEN tagged_teacher_id
                      ELSE projects[project_id].tagged_teacher_id
                 ELSE NULL
             stored == allowed_image_file(screenshot)
             name == ScreenshotName(project_id, now, screenshot)
         IN
         /\ projects' = [projects EXCEPT
                ![project_id].visibility = visibility,
                ![project_id].tagged_teacher_id = tagged,
                ![project_id].screenshot_path =
                    IF stored THEN <<name>> ELSE @]
         /\ disk' = IF stored THEN SaveFile(ScreenshotFolder, <<name>>) ELSE disk
         /\ response' = Resp("project_settings", 302,
                             "Project settings updated successfully!")
         /\ UNCHANGED <<users, classrooms, enrollments, challenges,
                        submissions, shares, notifications, email_logs, outbox>>

-----------------------------------------------------------------------------
(* view_project, project_file, view_code, src/app.py:670-752 *)

\* the model stops counting views at this number
MaxViews == 2

\* the views counter bumped whether or not access is granted
view_project_counts_every_request(current_user, project_id) ==
    /\ ~NoSuchProject(project_id)
    /\ projects[project_id].views < MaxViews
    /\ projects' = [projects EXCEPT ![project_id].views = @ + 1]
    /\ response' = IF check_project_access(current_user, project_id)
                   THEN Resp("view_project", 200, None)
                   ELSE Resp("view_project", 302,
                             "You do not have access to this project")
    /\ UNCHANGED <<users, classrooms, enrollments, challenges, submissions,
                   shares, notifications, email_logs, outbox, disk>>

view_project(current_user, project_id) ==
    IF NoSuchProject(project_id)
    THEN /\ response' = Resp("view_project", 404, None)
         /\ UNCHANGED <<dbvars, outbox, disk>>
    ELSE IF ~check_project_access(current_user, project_id)
    THEN /\ response' = Resp("view_project", 302,
                             "You do not have access to this project")
         /\ UNCHANGED <<dbvars, outbox, disk>>
    ELSE /\ projects[project_id].views < MaxViews
         /\ projects' = [projects EXCEPT ![project_id].views = @ + 1]
         /\ response' = Resp("view_project", 200, None)
         /\ UNCHANGED <<users, classrooms, enrollments, challenges,
                        submissions, shares, notifications, email_logs,
                        outbox, disk>>

\* what project_file and view_code answer before they touch the file: 0 when
\* every test passes
FileGate(current_user, project_id, file_path) ==
    LET safe_path == normpath(file_path) IN
    IF NoSuchProject(project_id) THEN 404
    ELSE IF ~check_project_access(current_user, project_id) THEN 403
    ELSE IF projects[project_id].project_dir = NoPath THEN 404
    ELSE IF ContainsDotDot(safe_path) THEN 403
    ELSE IF ~IsFile(projects[project_id].project_dir, safe_path) THEN 404
    ELSE 0

project_file(current_user, project_id, file_path) ==
    LET gate == FileGate(current_user, project_id, file_path) IN
    /\ response' =
          IF gate # 0
          THEN [handler |-> "project_file", status |-> gate, flash |-> None,
                file |-> NoPath]
          ELSE [handler |-> "project_file", status |-> 200, flash |-> None,
                file |-> normpath(file_path)]
    /\ UNCHANGED <<dbvars, outbox, disk>>

\* `readable` is whether open() and read() succeed
view_code(current_user, project_id, file_path, readable) ==
    LET gate == FileGate(current_user, project_id, file_path) IN
    /\ response' =
          IF gate # 0
          THEN [handler |-> "view_code", status |-> gate, flash |-> None,
                file |-> NoPath]
          ELSE IF readable
          THEN [handler |-> "view_code", status |-> 200, flash |-> None,
                file |-> normpath(file_path)]
          ELSE [handler |-> "view_code", status |-> 302,
                flash |-> "Error reading file", file |-> NoPath]
    /\ UNCHANGED <<dbvars, outbox, disk>>

-----------------------------------------------------------------------------
(* Sharing with parents, src/app.py:1199-1264 and 1282-1301 *)

\* what generate_share_code() can return: three of the 36^8 codes
ShareCodes == {"AAAA0001", "BBBB0002", "CCCC0003"}

\* ProjectShare(project_id, teacher_id, share_type, share_code)
ShareRow(project_id, teacher_id, share_type, share_code) ==
    [project_id |-> project_id, teacher_id |-> teacher_id,
     share_type |-> share_type, share_code |-> share_code]

\* ProjectShare.query.filter_by(project_id, teacher_id): first() is one of these
SharesOf(project_id, teacher_id) ==
    {s \in shares : s.project_id = project_id /\ s.teacher_id = teacher_id}

\* ProjectShare.query.filter_by(share_code=share_code)
SharesWithCode(share_code) == {s \in shares : s.share_code = share_code}

\* the project a share link shows, NULL when first_or_404() answers 404
SharedProject(share_code) ==
    IF SharesWithCode(share_code) = {} THEN NULL
    ELSE (CHOOSE s \in SharesWithCode(share_code) : TRUE).project_id

\* share_code is a unique column: would a row other than `own` hold `code`?
CodeTaken(code, own) == \E s \in shares \ own : s.share_code = code

\* @teacher_required and the classroom test the three sharing handlers start
\* with: the response they stop with, NoResponse when the request goes on
TeacherGate(handler, current_user, project_id) ==
    IF users[current_user].role \notin {"teacher", "staff", "admin"}
    THEN Resp(handler, 302, "Access denied. Teacher privileges required.")
    ELSE IF NoSuchProject(project_id)
    THEN Resp(handler, 404, None)
    ELSE IF /\ classrooms[projects[project_id].classroom_id].teacher_id
                 # current_user
            /\ users[current_user].role # "admin"
    THEN Resp(handler, 302,
              IF handler = "share_project_with_parents"
              THEN "You can only share projects from your classrooms"
              ELSE "You can only send emails for projects from your classrooms")
    ELSE NoResponse

Shared(share_code) ==
    [handler |-> "share_project_with_parents", status |-> 302,
     flash |-> "Project shared!", share_code |-> share_code]

\* a new row for every request, the existing share never looked up
share_project_with_parents_always_inserts(current_user, project_id, share_type) ==
    LET gate == TeacherGate("share_project_with_parents", current_user, project_id) IN
    IF gate # NoResponse
    THEN response' = gate /\ UNCHANGED <<dbvars, outbox, disk>>
    ELSE \E share_code \in ShareCodes :
            IF CodeTaken(share_code, {})
            THEN /\ response' = Resp("share_project_with_parents", 500, None)
                 /\ UNCHANGED <<dbvars, outbox, disk>>
            ELSE /\ shares' = shares \cup
                        {ShareRow(project_id, current_user, share_type, share_code)}
                 /\ response' = Shared(share_code)
                 /\ UNCHANGED <<users, classrooms, enrollments, projects,
                                challenges, submissions, notifications,
                                email_logs, outbox, disk>>

share_project_with_parents(current_user, project_id, share_type) ==
    LET gate == TeacherGate("share_project_with_parents", current_user, project_id) IN
    IF gate # NoResponse
    THEN response' = gate /\ UNCHANGED <<dbvars, outbox, disk>>
    ELSE IF /\ projects[project_id].visibility # "public"
            /\ share_type = "parents"
            /\ users[projects[project_id].student_id].parent_email = None
    THEN /\ response' = Resp("share_project_with_parents", 302,
                             "Cannot share: This student has no parent email registered and project is not public.")
         /\ UNCHANGED <<dbvars, outbox, disk>>
    ELSE \E share_code \in ShareCodes :
         \E existing \in IF SharesOf(project_id, current_user) = {}
                         THEN {{}}
                         ELSE {{s} : s \in SharesOf(project_id, current_user)} :
            \* the commit fails on the unique share_code: 500, rolled back
            IF CodeTaken(share_code, existing)
            THEN /\ response' = Resp("share_project_with_parents", 500, None)
                 /\ UNCHANGED <<dbvars, outbox, disk>>
            ELSE /\ shares' = (shares \ existing) \cup
                        {ShareRow(project_id, current_user, share_type, share_code)}
                 /\ response' = Shared(share_code)
                 /\ UNCHANGED <<users, classrooms, enrollments, projects,
                                challenges, submissions, notifications,
                                email_logs, outbox, disk>>

\* the notifications view_shared_project's query matches
NotificationsOf(project_id, parent_id, share_code) ==
    {i \in 1..Len(notifications) :
        /\ notifications[i].project_id = project_id
        /\ notifications[i].parent_id = parent_id
        /\ notifications[i].share_code = share_code}

\* current_user is NULL for a client that has not logged in
view_shared_project(current_user, share_code) ==
    IF SharesWithCode(share_code) = {}
    THEN /\ response' = Resp("view_shared_project", 404, None)
         /\ UNCHANGED <<dbvars, outbox, disk>>
    ELSE \E share \in SharesWithCode(share_code) :
         LET mine == IF current_user # NULL /\ users[current_user].role = "parent"
                     THEN NotificationsOf(share.project_id, current_user, share_code)
                     ELSE {} IN
         /\ response' = [handler |-> "view_shared_project", status |-> 200,
                         flash |-> None, project |-> share.project_id]
         /\ IF mine = {}
            THEN UNCHANGED notifications
            ELSE \E i \in mine :
                    notifications' = [notifications EXCEPT ![i].viewed = TRUE]
         /\ UNCHANGED <<users, classrooms, enrollments, projects, challenges,
                        submissions, shares, email_logs, outbox, disk>>

view_parent_notification(current_user, notification_id) ==
    IF users[current_user].role # "parent"
    THEN /\ response' = Resp("view_parent_notification", 302,
                             "Access denied. Parent privileges required.")
         /\ UNCHANGED <<dbvars, outbox, disk>>
    ELSE IF notification_id \notin 1..Len(notifications)
    THEN /\ response' = Resp("view_parent_notification", 404, None)
         /\ UNCHANGED <<dbvars, outbox, disk>>
    ELSE IF notifications[notification_id].parent_id # current_user
    THEN /\ response' = Resp("view_parent_notification", 302, "Access denied")
         /\ UNCHANGED <<dbvars, outbox, disk>>
    ELSE /\ notifications' = [notifications EXCEPT ![notification_id].viewed = TRUE]
         /\ response' =
               [handler |-> "view_parent_notification", status |-> 302,
                flash |-> None,
                location |->
                   IF notifications[notification_id].share_code # None
                   THEN <<"share", notifications[notification_id].share_code>>
                   ELSE <<"project", notifications[notification_id].project_id>>]
         /\ UNCHANGED <<users, classrooms, enrollments, projects, challenges,
                        submissions, shares, email_logs, outbox, disk>>

-----------------------------------------------------------------------------
(* E-mail to parents, src/app.py:1317-1509 *)

\* the e-mail log is capped so that the state space is finite
MaxEmailLogs == 1

\* str.lower() over the addresses and the file extensions the requests carry
Lower(s) ==
    CASE s = "PARENT@X" -> "parent@x"
      [] s = "HTML" -> "html"
      [] OTHER -> s

EmailLogRow(project_id, teacher_id, parent_email, status) ==
    [project_id |-> project_id, teacher_id |-> teacher_id,
     parent_email |-> parent_email, status |-> status]

\* the Message handed to mail.send: its recipient and the link it carries
Message(parent_email, project_id, share_code) ==
    [to |-> parent_email, project_id |-> project_id, share_code |-> share_code]

\* User.query.filter_by(email=parent_email, role='parent')
ParentUsers(parent_email) ==
    {u \in UserIds : users[u].email = parent_email /\ users[u].role = "parent"}

\* the ParentNotification rows one delivered e-mail adds: none or one
NotifyParent(parent_email, project_id, teacher_id, student_id, share_code) ==
    IF ParentUsers(parent_email) = {} THEN << >>
    ELSE <<NotificationRow(project_id,
                           CHOOSE u \in ParentUsers(parent_email) : TRUE,
                           teacher_id, student_id, share_code)>>

\* "generate or get share code": the (brand new?, code) pairs the lookup and
\* generate_share_code() can give
ShareCodeFor(project_id, teacher_id) ==
    IF SharesOf(project_id, teacher_id) = {}
    THEN {<<TRUE, c>> : c \in ShareCodes}
    ELSE {<<FALSE, s.share_code>> : s \in SharesOf(project_id, teacher_id)}

\* str.strip() on the addresses of the model
Strip(s) ==
    CASE s = " parent@x " -> "parent@x"
      [] s = "  " -> ""
      [] OTHER -> s

\* AddressMismatch letting every address through
AddressMismatch_never(project_id, parent_email) == FALSE

\* lines 1339-1340: the project is not public and the address differs,
\* ignoring case, from the parent_email registered for the student
AddressMismatch(project_id, parent_email) ==
    /\ projects[project_id].visibility # "public"
    /\ Lower(parent_email)
          # Lower(users[projects[project_id].student_id].parent_email)

send_project_email(current_user, project_id, submitted_email) ==
    LET h == "send_project_email"
        parent_email == Strip(submitted_email)
        gate == TeacherGate(h, current_user, project_id) IN
    IF gate # NoResponse
    THEN response' = gate /\ outbox' = {} /\ UNCHANGED <<dbvars, disk>>
    ELSE IF parent_email = ""
    THEN /\ response' = Resp(h, 302, "Parent email is required")
         /\ outbox' = {} /\ UNCHANGED <<dbvars, disk>>
    ELSE IF users[projects[project_id].student_id].parent_email = None
    THEN /\ response' = Resp(h, 302,
              "This student has no parent email registered. Cannot send email.")
         /\ outbox' = {} /\ UNCHANGED <<dbvars, disk>>
    ELSE IF AddressMismatch(project_id, parent_email)
    THEN /\ response' = Resp(h, 302,
              "You can only send this project to the student's registered parent email. This project is not public.")
         /\ outbox' = {} /\ UNCHANGED <<dbvars, disk>>
    ELSE \E sc \in ShareCodeFor(project_id, current_user) :
         \E delivered \in BOOLEAN :
         LET new        == sc[1]
             share_code == sc[2]
             msg        == Message(parent_email, project_id, share_code)
             added      == IF new
                           THEN {ShareRow(project_id, current_user, "parents",
                                          share_code)}
                           ELSE {} IN
         IF new /\ CodeTaken(share_code, {})
         THEN \* the INSERT fails on the unique share_code, the handler's own
              \* commit then fails too: 500, rolled back; the message has left
              \* if mail.send ran before the session was flushed
              /\ response' = Resp(h, 500, None)
              /\ outbox' = IF delivered THEN {msg} ELSE {}
              /\ UNCHANGED <<dbvars, disk>>
         ELSE /\ Len(email_logs) < MaxEmailLogs
              /\ shares' = shares \cup added
              /\ IF delivered
                 THEN /\ outbox' = {msg}
                      /\ email_logs' = Append(email_logs,
                            EmailLogRow(project_id, current_user, parent_email, "sent"))
                      /\ notifications' = notifications \o
                            NotifyParent(parent_email, project_id, current_user,
                                         projects[project_id].student_id, share_code)
                      /\ response' = Resp(h, 302, "Email sent successfully")
                 ELSE /\ email_logs' = Append(email_logs,
                            EmailLogRow(project_id, current_user, parent_email, "failed"))
                      /\ response' = Resp(h, 302, "Failed to send email")
                      /\ outbox' = {}
                      /\ UNCHANGED notifications
              /\ UNCHANGED <<users, classrooms, enrollments, projects,
                             challenges, submissions, disk>>

\* the students send_bulk_email writes to
students_with_parents(project_id) ==
    IF projects[project_id].visibility # "public"
    THEN {projects[project_id].student_id}
    ELSE {e.student_id : e \in
            {e \in enrollments :
                /\ e.classroom_id = projects[project_id].classroom_id
                /\ e.student_id \in UserIds
                /\ users[e.student_id].parent_email # None}}

\* the orders a query without ORDER BY can list a set of rows in
Orders(S) ==
    {q \in [1..Cardinality(S) -> S] : {q[i] : i \in 1..Cardinality(S)} = S}

RECURSIVE BulkLogs(_, _, _, _)
BulkLogs(order, delivered, project_id, teacher_id) ==
    IF order = << >> THEN << >>
    ELSE <<EmailLogRow(project_id, teacher_id, users[Head(order)].parent_email,
                       IF Head(order) \in delivered THEN "sent" ELSE "failed")>>
         \o BulkLogs(Tail(order), delivered, project_id, teacher_id)

RECURSIVE BulkNotifications(_, _, _, _, _)
BulkNotifications(order, delivered, project_id, teacher_id, share_code) ==
    IF order = << >> THEN << >>
    ELSE (IF Head(order) \in delivered
          THEN NotifyParent(users[Head(order)].parent_email, project_id,
                            teacher_id, Head(order), share_code)
          ELSE << >>)
         \o BulkNotifications(Tail(order), delivered, project_id, teacher_id,
                              share_code)

send_bulk_email(current_user, project_id) ==
    LET h == "send_bulk_email"
        gate == TeacherGate(h, current_user, project_id) IN
    IF gate # NoResponse
    THEN response' = gate /\ outbox' = {} /\ UNCHANGED <<dbvars, disk>>
    ELSE IF users[projects[project_id].student_id].parent_email = None
    THEN /\ response' = Resp(h, 302,
              "This student has no parent email registered. Cannot send email.")
         /\ outbox' = {} /\ UNCHANGED <<dbvars, disk>>
    ELSE IF students_with_parents(project_id) = {}
    THEN /\ response' = Resp(h, 302, "No parent email available for this project")
         /\ outbox' = {} /\ UNCHANGED <<dbvars, disk>>
    ELSE \E sc \in ShareCodeFor(project_id, current_user) :
         \E order \in Orders(students_with_parents(project_id)) :
         \E delivered \in SUBSET students_with_parents(project_id) :
         LET new        == sc[1]
             share_code == sc[2]
             msgs       == {Message(users[s].parent_email, project_id, share_code) :
                               s \in delivered}
             added      == IF new
                           THEN {ShareRow(project_id, current_user, "parents",
                                          share_code)}
                           ELSE {} IN
         IF new /\ CodeTaken(share_code, {})
         THEN /\ response' = Resp(h, 500, None)
              /\ outbox' = msgs
              /\ UNCHANGED <<dbvars, disk>>
         ELSE /\ Len(email_logs) + Len(order) <= MaxEmailLogs
              /\ shares' = shares \cup added
              /\ outbox' = msgs
              /\ email_logs' = email_logs \o
                    BulkLogs(order, delivered, project_id, current_user)
              /\ notifications' = notifications \o
                    BulkNotifications(order, delivered, project_id,
                                      current_user, share_code)
              /\ response' = [handler |-> h, status |-> 302,
                              flash |-> "Bulk email sent!",
                              sent |-> Cardinality(delivered),
                              failed |-> Len(order) - Cardinality(delivered)]
              /\ UNCHANGED <<users, classrooms, enrollments, projects,
                             challenges, submissions, disk>>

-----------------------------------------------------------------------------
(* Enrollment and challenges, src/app.py:375-440 and 851-895 *)

\* ClassroomStudent.query.filter_by(classroom_id, student_id)
EnrollmentsOf(classroom_id, student_id) ==
    {e \in enrollments :
        e.classroom_id = classroom_id /\ e.student_id = student_id}

\* student_id is the form field, NULL when the field is empty
add_student_to_classroom(current_user, classroom_id, student_id) ==
    LET h == "add_student_to_classroom" IN
    IF classroom_id \notin ClassroomIds
    THEN response' = Resp(h, 404, None) /\ UNCHANGED <<dbvars, outbox, disk>>
    ELSE IF /\ users[current_user].role # "admin"
            /\ classrooms[classroom_id].teacher_id # current_user
    THEN /\ response' = Resp(h, 302,
              "You do not have permission to add students to this classroom")
         /\ UNCHANGED <<dbvars, outbox, disk>>
    ELSE IF student_id = NULL
    THEN /\ response' = Resp(h, 302, "Please select a student")
         /\ UNCHANGED <<dbvars, outbox, disk>>
    ELSE IF student_id \notin UserIds \/ users[student_id].role # "student"
    THEN /\ response' = Resp(h, 302, "Invalid student selected")
         /\ UNCHANGED <<dbvars, outbox, disk>>
    ELSE IF EnrollmentsOf(classroom_id, student_id) # {}
    THEN /\ response' = Resp(h, 302, "is already in this classroom")
         /\ UNCHANGED <<dbvars, outbox, disk>>
    ELSE /\ enrollments' = enrollments \cup {EnrollmentRow(classroom_id, student_id)}
         /\ response' = Resp(h, 302, "added to classroom successfully!")
         /\ UNCHANGED <<users, classrooms, projects, challenges, submissions,
                        shares, notifications, email_logs, outbox, disk>>

remove_student_from_classroom(current_user, classroom_id, student_id) ==
    LET h == "remove_student_from_classroom" IN
    IF classroom_id \notin ClassroomIds
    THEN response' = Resp(h, 404, None) /\ UNCHANGED <<dbvars, outbox, disk>>
    ELSE IF /\ users[current_user].role # "admin"
            /\ classrooms[classroom_id].teacher_id # current_user
    THEN /\ response' = Resp(h, 302,
              "You do not have permission to remove students from this classroom")
         /\ UNCHANGED <<dbvars, outbox, disk>>
    ELSE IF EnrollmentsOf(classroom_id, student_id) = {}
    THEN response' = Resp(h, 404, None) /\ UNCHANGED <<dbvars, outbox, disk>>
    ELSE \E enrollment \in EnrollmentsOf(classroom_id, student_id) :
         /\ enrollments' = enrollments \ {enrollment}
         /\ response' = Resp(h, 302, "removed from classroom")
         /\ UNCHANGED <<users, classrooms, projects, challenges, submissions,
                        shares, notifications, email_logs, outbox, disk>>

\* ChallengeSubmission(challenge_id, student_id, project_id, points_awarded)
SubmissionRow(challenge_id, student_id, project_id, points_awarded) ==
    [challenge_id |-> challenge_id, student_id |-> student_id,
     project_id |-> project_id, points_awarded |-> points_awarded]

\* ChallengeSubmission.query.filter_by(challenge_id, student_id).first() is not None
Submitted(challenge_id, student_id) ==
    \E i \in 1..Len(submissions) :
        /\ submissions[i].challenge_id = challenge_id
        /\ submissions[i].student_id = student_id

\* the submission and the points of a request that got past the checks
AwardChallenge(current_user, challenge_id, project_id) ==
    LET challenge == challenges[challenge_id]
        mine == EnrollmentsOf(challenge.classroom_id, current_user) IN
    /\ submissions' = Append(submissions,
          SubmissionRow(challenge_id, current_user, project_id, challenge.points))
    /\ IF mine = {}
       THEN UNCHANGED enrollments
       ELSE \E enrollment \in mine :
               enrollments' = (enrollments \ {enrollment}) \cup
                  {[enrollment EXCEPT !.points = @ + challenge.points]}
    /\ response' = Resp("submit_challenge", 302, "Challenge submitted!")
    /\ UNCHANGED <<users, classrooms, projects, challenges, shares,
                   notifications, email_logs, outbox, disk>>

\* the checks that come before the one for an earlier submission: the
\* response they stop with, NoResponse when the request goes on
SubmitGate(current_user, challenge_id, project_id) ==
    IF users[current_user].role # "student"
    THEN Resp("submit_challenge", 302, "Only students can submit challenges")
    ELSE IF challenge_id \notin DOMAIN challenges
    THEN Resp("submit_challenge", 404, None)
    ELSE IF \/ NoSuchProject(project_id)
            \/ projects[project_id].student_id # current_user
            \/ projects[project_id].classroom_id
                  # challenges[challenge_id].classroom_id
    THEN Resp("submit_challenge", 302, "Invalid project")
    ELSE NoResponse

\* every submission accepted, an earlier one never looked for
submit_challenge_every_time(current_user, challenge_id, project_id) ==
    IF SubmitGate(current_user, challenge_id, project_id) # NoResponse
    THEN /\ response' = SubmitGate(current_user, challenge_id, project_id)
         /\ UNCHANGED <<dbvars, outbox, disk>>
    ELSE AwardChallenge(current_user, challenge_id, project_id)

submit_challenge(current_user, challenge_id, project_id) ==
    IF SubmitGate(current_user, challenge_id, project_id) # NoResponse
    THEN /\ response' = SubmitGate(current_user, challenge_id, project_id)
         /\ UNCHANGED <<dbvars, outbox, disk>>
    ELSE IF Submitted(challenge_id, current_user)
    THEN /\ response' = Resp("submit_challenge", 302,
                             "You have already submitted this challenge")
         /\ UNCHANGED <<dbvars, outbox, disk>>
    ELSE AwardChallenge(current_user, challenge_id, project_id)

-----------------------------------------------------------------------------
(* submit_challenge in its three database steps, src/app.py:851-895: the   *)
(* checks with the lookup of an earlier submission (854-875), the read of  *)
(* the enrollment with the addition done in memory (877-890), the commit   *)
(* that writes the submission and the new points (892-893).  Every request *)
(* has its own session; a read sees what has been committed.               *)

Idle == [pc |-> "idle"]

submit_challenge_lookup(r, current_user, challenge_id, project_id) ==
    /\ inflight[r] = Idle
    /\ IF SubmitGate(current_user, challenge_id, project_id) # NoResponse
       THEN /\ response' = SubmitGate(current_user, challenge_id, project_id)
            /\ UNCHANGED inflight
       ELSE IF Submitted(challenge_id, current_user)
       THEN /\ response' = Resp("submit_challenge", 302,
                                "You have already submitted this challenge")
            /\ UNCHANGED inflight
       ELSE /\ inflight' = [inflight EXCEPT ![r] =
                  [pc |-> "looked_up", user |-> current_user,
                   challenge |-> challenge_id, project |-> project_id]]
            /\ UNCHANGED response
    /\ UNCHANGED <<dbvars, outbox, disk>>

\* enrollment.points += challenge.points on the row just read: points is the
\* value the commit will write, NULL when the student has no enrollment
submit_challenge_award(r) ==
    /\ inflight[r].pc = "looked_up"
    /\ LET challenge == challenges[inflight[r].challenge]
           mine == EnrollmentsOf(challenge.classroom_id, inflight[r].user) IN
       IF mine = {}
       THEN inflight' = [inflight EXCEPT ![r] =
               [@ EXCEPT !.pc = "awarded"] @@ [enrolled |-> FALSE, points |-> NULL]]
       ELSE \E enrollment \in mine :
               inflight' = [inflight EXCEPT ![r] =
                  [@ EXCEPT !.pc = "awarded"] @@
                  [enrolled |-> TRUE,
                   points |-> enrollment.points + challenge.points]]
    /\ UNCHANGED <<dbvars, outbox, disk, response>>

\* INSERT of the submission and UPDATE ... SET points = <the value computed>
submit_challenge_commit(r) ==
    /\ inflight[r].pc = "awarded"
    /\ LET req == inflight[r]
           challenge == challenges[req.challenge]
           mine == EnrollmentsOf(challenge.classroom_id, req.user) IN
       /\ submissions' = Append(submissions,
             SubmissionRow(req.challenge, req.user, req.project, challenge.points))
       /\ enrollments' =
             IF req.enrolled
             THEN (enrollments \ mine) \cup
                  {[e EXCEPT !.points = req.points] : e \in mine}
             ELSE enrollments
    /\ inflight' = [inflight EXCEPT ![r] = Idle]
    /\ response' = Resp("submit_challenge", 302, "Challenge submitted!")
    /\ UNCHANGED <<users, classrooms, projects, challenges, shares,
                   notifications, email_logs, outbox, disk>>

-----------------------------------------------------------------------------
(* The access resolver on its own: the database is drawn from the states   *)
(* the handlers can leave behind (admin_edit_user gives any user any role, *)
(* whatever rows already name that user), then check_project_access is     *)
(* evaluated for any user and project.  User 1 is the viewer whose role    *)
(* and relations vary; user 2 is a teacher and user 3 a student.           *)

\* the notifications of parent 1, one for each project of `for_projects`
NotificationsFor(for_projects) ==
    LET n1 == NotificationRow(1, 1, 2, 3, "CODE0001")
        n2 == NotificationRow(2, 1, 2, 3, "CODE0002") IN
    IF for_projects = {} THEN << >>
    ELSE IF for_projects = {1} THEN <<n1>>
    ELSE IF for_projects = {2} THEN <<n2>>
    ELSE <<n1, n2>>

InitAccess ==
    /\ \E role \in Roles :
          users = (1 :> UserRow(role, "one@x", None)
                   @@ 2 :> UserRow("teacher", "two@x", None)
                   @@ 3 :> UserRow("student", "three@x", "parent@x"))
    /\ \E teacher \in {1, 2} :
          classrooms = (1 :> [teacher_id |-> teacher]
                        @@ 2 :> [teacher_id |-> 2])
    /\ \E mine \in SUBSET {1, 2} :
          enrollments = {EnrollmentRow(c, 1) : c \in mine}
                        \cup {EnrollmentRow(c, 3) : c \in {1, 2}}
    /\ \E owner \in {1, 3}, tagged \in {NULL, 1, 2},
          visibility \in KnownVisibility \cup UnknownVisibility :
          projects = (1 :> [ProjectRow(owner, 1, tagged)
                               EXCEPT !.visibility = visibility]
                      @@ 2 :> ProjectRow(3, 2, 2))
    /\ \E for_projects \in SUBSET {1, 2} :
          notifications = NotificationsFor(for_projects)
    /\ challenges = << >>
    /\ submissions = << >>
    /\ shares = {}
    /\ email_logs = << >>
    /\ outbox = {}
    /\ disk = << >>
    /\ response = NoResponse
    /\ inflight = NoRequests

NextAccess ==
    \E current_user \in UserIds, project \in ProjectIds :
        CheckAccess(current_user, project) /\ UNCHANGED inflight

SpecAccess == InitAccess /\ [][NextAccess]_vars

\* what the last evaluation of check_project_access was about
Called == response.handler = "check_project_access"
Viewer == users[response.user]
Viewed == projects[response.project]
ViewerIsAdminOrOwner ==
    Viewer.role = "admin" \/ Viewed.student_id = response.user
ViewerTeachesClassroom ==
    classrooms[Viewed.classroom_id].teacher_id = response.user

\* C1: for a project whose visibility is 'private', check_project_access
\* returns true if and only if the viewer is an admin or the project's owning
\* student, whatever the viewer's role, enrollments, notifications, classroom
\* ownership or tag; the teacher of the project's classroom is denied.
C1_PrivateOnlyOwnerOrAdmin ==
    (Called /\ Viewed.visibility = "private")
        => (response.granted <=> ViewerIsAdminOrOwner)

\* reached: the teacher who owns the classroom of a private project, tagged
\* on it, asked and was denied
C1_Witness ==
    /\ Called /\ Viewed.visibility = "private"
    /\ Viewer.role = "teacher" /\ ViewerTeachesClassroom
    /\ Viewed.tagged_teacher_id = response.user
    /\ Viewed.student_id # response.user
    /\ response.granted = FALSE

\* C2: for a project whose visibility is 'public', check_project_access
\* returns true for every viewer of every role, also for a student enrolled
\* only in another classroom and for a parent without a notification.
C2_PublicGrantsEveryone ==
    (Called /\ Viewed.visibility = "public") => response.granted

\* reached: a student enrolled only in the other classroom was granted a
\* public project
C2_Witness ==
    /\ Called /\ Viewed.visibility = "public"
    /\ Viewer.role = "student" /\ Viewed.student_id # response.user
    /\ ~Enrolled(Viewed.classroom_id, response.user)
    /\ \E c \in ClassroomIds : Enrolled(c, response.user)
    /\ response.granted = TRUE

\* C3: for a project whose visibility is 'classroom' and a viewer who is
\* neither admin nor owner, check_project_access returns true exactly when
\* the viewer is a teacher or staff member who teaches the project's
\* classroom, or a parent with a notification for this project, or a student
\* enrolled in the project's classroom.
C3_ClassroomRule ==
    (Called /\ Viewed.visibility = "classroom" /\ ~ViewerIsAdminOrOwner)
        => (response.granted <=>
               \/ Viewer.role \in {"teacher", "staff"} /\ ViewerTeachesClassroom
               \/ /\ Viewer.role = "parent"
                  /\ HasNotification(response.project, response.user)
               \/ /\ Viewer.role = "student"
                  /\ Enrolled(Viewed.classroom_id, response.user))

\* reached: a parent who is on the classroom's roll but has a notification
\* for the other project only was denied
C3_Witness ==
    /\ Called /\ Viewed.visibility = "classroom" /\ ~ViewerIsAdminOrOwner
    /\ Viewer.role = "parent"
    /\ Enrolled(Viewed.classroom_id, response.user)
    /\ ~HasNotification(response.project, response.user)
    /\ \E p \in ProjectIds : HasNotification(p, response.user)
    /\ response.granted = FALSE

\* C4: for a project whose visibility is 'parents' and a viewer who is
\* neither admin nor owner, check_project_access returns true exactly when
\* the viewer is a teacher or staff member who teaches the project's
\* classroom or is the project's tagged teacher, or a parent with a
\* notification for this project; an enrolled student is denied.
C4_ParentsRule ==
    (Called /\ Viewed.visibility = "parents" /\ ~ViewerIsAdminOrOwner)
        => (response.granted <=>
               \/ /\ Viewer.role \in {"teacher", "staff"}
                  /\ \/ ViewerTeachesClassroom
                     \/ Viewed.tagged_teacher_id = response.user
               \/ /\ Viewer.role = "parent"
                  /\ HasNotification(response.project, response.user))

\* reached: a student of the project's classroom, not its owner, was denied
C4_Witness ==
    /\ Called /\ Viewed.visibility = "parents"
    /\ Viewer.role = "student" /\ Viewed.student_id # response.user
    /\ Enrolled(Viewed.classroom_id, response.user)
    /\ response.granted = FALSE

\* C5: for a project whose stored visibility is none of 'classroom',
\* 'public', 'private', 'parents', check_project_access returns false for
\* every viewer who is neither admin nor owner.
C5_UnknownVisibilityDenied ==
    (Called /\ Viewed.visibility \notin KnownVisibility /\ ~ViewerIsAdminOrOwner)
        => ~response.granted

\* reached: the teacher of the classroom, also enrolled in it, was denied a
\* project whose visibility is 'friends'
C5_Witness ==
    /\ Called /\ Viewed.visibility = "friends"
    /\ Viewer.role = "teacher" /\ ViewerTeachesClassroom
    /\ Enrolled(Viewed.classroom_id, response.user)
    /\ Viewed.student_id # response.user
    /\ response.granted = FALSE

\* C6: an evaluation of check_project_access changes no record, no file and
\* sends nothing, and the next evaluation for the same viewer and project
\* returns what this one returned.
C6_AccessCheckIsPure ==
    [][response'.handler = "check_project_access"
          => /\ UNCHANGED <<dbvars, outbox, disk>>
             /\ (/\ Called
                 /\ response'.user = response.user
                 /\ response'.project = response.project)
                    => response'.granted = response.granted]_vars

\* reached: a parent holding two unread notifications was granted a
\* 'parents' project, and both notifications are still unread
C6_Witness ==
    /\ Called /\ Viewed.visibility = "parents" /\ Viewer.role = "parent"
    /\ response.granted = TRUE
    /\ Len(notifications) = 2
    /\ \A i \in 1..Len(notifications) : ~notifications[i].viewed

-----------------------------------------------------------------------------
(* Viewing.  The database holds an admin (1), the teacher of both          *)
(* classrooms (2) and two students (3, 4), each enrolled in one classroom  *)
(* with one project in it: project 1 is a multi-file upload, project 2 a   *)
(* single file.  Owners and the admin change the settings; everybody asks  *)
(* for pages, files and code.                                              *)

UploadFolder == <<"static", "uploads">>

InitView ==
    /\ users = (1 :> UserRow("admin", "admin@x", None)
                @@ 2 :> UserRow("teacher", "teacher@x", None)
                @@ 3 :> UserRow("student", "three@x", "parent@x")
                @@ 4 :> UserRow("student", "four@x", None))
    /\ classrooms = (1 :> [teacher_id |-> 2] @@ 2 :> [teacher_id |-> 2])
    /\ enrollments = {EnrollmentRow(1, 3), EnrollmentRow(2, 4)}
    /\ projects =
          (1 :> [ProjectRow(3, 1, 2) EXCEPT
                    !.project_dir = ProjectDirName(3, 100),
                    !.main_file = <<"index.html">>]
           @@ 2 :> [ProjectRow(4, 2, 2) EXCEPT
                    !.file_path = <<4, 100, "page.html">>])
    /\ disk = (ProjectDirName(3, 100)
                   :> {<<"index.html">>, <<"css", "style.css">>}
               @@ UploadFolder :> {<<4, 100, "page.html">>}
               @@ ScreenshotFolder :> {})
    /\ challenges = << >>
    /\ submissions = << >>
    /\ shares = {}
    /\ notifications = << >>
    /\ email_logs = << >>
    /\ outbox = {}
    /\ response = NoResponse
    /\ inflight = NoRequests

\* the paths asked for: files of project 1, a directory, a missing file, and
\* paths with a parent-directory segment
RequestPaths ==
    {<<"index.html">>, <<"css", "style.css">>, <<"css">>, <<"missing.html">>,
     <<"..", "secret">>, <<"css", "..", "index.html">>}

NextView ==
    \/ \E u \in UserIds, p \in ProjectIds \cup {MissingProjectId} :
          view_project(u, p) /\ UNCHANGED inflight
    \/ \E u \in UserIds, p \in ProjectIds \cup {MissingProjectId},
          path \in RequestPaths :
          project_file(u, p, path) /\ UNCHANGED inflight
    \/ \E u \in UserIds, p \in ProjectIds \cup {MissingProjectId},
          path \in RequestPaths, readable \in BOOLEAN :
          view_code(u, p, path, readable) /\ UNCHANGED inflight
    \/ \E u \in UserIds, p \in ProjectIds \cup {MissingProjectId},
          visibility \in {"classroom", "public", "private", "friends"} :
          project_settings(u, p, visibility, 2, "", 100) /\ UNCHANGED inflight

SpecView == InitView /\ [][NextView]_vars

\* The settings form on its own, with every kind of input: any visibility
\* string, no tag, a teacher, a student or an unknown id as the tag, no
\* screenshot, an image and a file that is no image.
NextSettings ==
    \E u \in UserIds, p \in ProjectIds \cup {MissingProjectId},
       visibility \in KnownVisibility \cup UnknownVisibility,
       tagged \in {NULL, 2, 3, 9}, screenshot \in {"", "png", "exe"} :
       project_settings(u, p, visibility, tagged, screenshot, 100) /\ UNCHANGED inflight

SpecSettings == InitView /\ [][NextSettings]_vars

ViewsUnchanged ==
    \A q \in ProjectIds : projects'[q].views = projects[q].views

\* C7: a view_project request adds exactly 1 to the project's views when
\* check_project_access grants it and changes no views counter when access
\* is denied (or the project does not exist); project_file and view_code
\* requests never change a views counter.
C7_ViewsCountGrantedViews ==
    [][/\ response'.handler = "view_project" =>
            \A u \in UserIds, p \in ProjectIds \cup {MissingProjectId} :
               view_project(u, p) =>
                  IF p \in ProjectIds /\ check_project_access(u, p)
                  THEN /\ projects'[p].views = projects[p].views + 1
                       /\ \A q \in ProjectIds \ {p} :
                             projects'[q].views = projects[q].views
                       /\ response'.status = 200
                  ELSE ViewsUnchanged /\ response'.status # 200
       /\ response'.handler \in {"project_file", "view_code"}
            => ViewsUnchanged]_vars

\* reached: a private project was viewed twice by those allowed to, and the
\* last request for its page was refused
C7_Witness ==
    /\ response = Resp("view_project", 302,
                       "You do not have access to this project")
    /\ \E p \in ProjectIds :
          projects[p].visibility = "private" /\ projects[p].views = 2
    /\ \E q \in ProjectIds : projects[q].views = 0

-----------------------------------------------------------------------------
(* Sharing and e-mail: a classroom of the teacher and one of the admin, a
   student whose parent is registered and has an account, a student without
   a parent e-mail, and a second parent account *)

ShareTables(v1, v2) ==
    /\ users = (1 :> UserRow("admin", "admin@x", None)
                @@ 2 :> UserRow("teacher", "teacher@x", None)
                @@ 3 :> UserRow("student", "three@x", "parent@x")
                @@ 4 :> UserRow("student", "four@x", None)
                @@ 5 :> UserRow("parent", "parent@x", None)
                @@ 6 :> UserRow("parent", "other@x", None))
    /\ classrooms = (1 :> [teacher_id |-> 2] @@ 2 :> [teacher_id |-> 1])
    /\ enrollments = {EnrollmentRow(1, 3), EnrollmentRow(2, 4)}
    /\ projects = (1 :> [ProjectRow(3, 1, 2) EXCEPT !.visibility = v1]
                   @@ 2 :> [ProjectRow(4, 2, NULL) EXCEPT !.visibility = v2])
    /\ challenges = << >>
    /\ submissions = << >>
    /\ shares = {}
    /\ notifications = << >>
    /\ email_logs = << >>
    /\ outbox = {}
    /\ disk = << >>
    /\ response = NoResponse
    /\ inflight = NoRequests

\* Share links: the share form with both share types, and the link page
\* opened by every user and by a client that is not logged in.
InitShareCode ==
    \E v1 \in {"public", "private"}, v2 \in {"public", "classroom"} :
       ShareTables(v1, v2)

NextShareCode ==
    \/ \E u \in UserIds, p \in ProjectIds \cup {MissingProjectId},
          share_type \in {"parents", "public"} :
          share_project_with_parents(u, p, share_type) /\ UNCHANGED inflight
    \/ \E u \in UserIds \cup {NULL}, share_code \in ShareCodes :
          view_shared_project(u, share_code) /\ UNCHANGED inflight

SpecShareCode == InitShareCode /\ [][NextShareCode]_vars

\* The three requests that write ProjectShare rows, sent by the admin, the
\* teacher and a student; the share form is sent with its default share type.
InitShare == \E v1 \in {"public", "private"} : ShareTables(v1, "classroom")

\* the addresses typed into the send form
RequestEmails == {"", "parent@x", "other@x"}

NextShare ==
    \/ \E u \in {1, 2, 3}, p \in ProjectIds \cup {MissingProjectId} :
          share_project_with_parents(u, p, "parents") /\ UNCHANGED inflight
    \/ \E u \in {1, 2, 3}, p \in ProjectIds \cup {MissingProjectId},
          parent_email \in RequestEmails :
          send_project_email(u, p, parent_email) /\ UNCHANGED inflight
    \/ \E u \in {1, 2, 3}, p \in ProjectIds \cup {MissingProjectId} :
          send_bulk_email(u, p) /\ UNCHANGED inflight

SpecShare == InitShare /\ [][NextShare]_vars

\* C8: when a teacher who already has a share for a project gets "Project
\* shared!" from share_project_with_parents for that project again, then for
\* every code generate_share_code() returned a lookup by the previous code
\* finds no share and a lookup by the issued code finds that project.
C8_RegenerationInvalidatesOldCode ==
    [][response'.handler = "share_project_with_parents"
       /\ response'.flash = "Project shared!" =>
          \A u \in UserIds, p \in ProjectIds, share_type \in {"parents", "public"} :
             (SharesOf(p, u) # {} /\ share_project_with_parents(u, p, share_type)) =>
                /\ \A old \in SharesOf(p, u) :
                      \A s \in shares' : s.share_code # old.share_code
                /\ \E s \in shares' : s.share_code = response'.share_code
                /\ \A s \in shares' :
                      s.share_code = response'.share_code => s.project_id = p]_vars

\* C9: at most one ProjectShare row for every (project, teacher) pair
C9_OneSharePerProjectTeacher ==
    \A p \in ProjectIds, t \in UserIds : Cardinality(SharesOf(p, t)) <= 1

\* reached: a teacher's share was used for an e-mail (the notification keeps
\* its code), the same teacher then sent the share form again and the row
\* was given a new code, while another teacher's share of the project exists
C9_Witness ==
    /\ response.handler = "share_project_with_parents"
    /\ response.flash = "Project shared!"
    /\ \E i \in 1..Len(notifications), s \in shares :
          /\ s.project_id = notifications[i].project_id
          /\ s.teacher_id = notifications[i].teacher_id
          /\ s.share_code = response.share_code
          /\ s.share_code # notifications[i].share_code
          /\ \E o \in shares : o.project_id = s.project_id
                               /\ o.teacher_id # s.teacher_id

-----------------------------------------------------------------------------
(* Challenges: two classrooms of one teacher with a challenge each; student 3
   has two projects in classroom 1 and one in classroom 2, student 4 one in
   classroom 1; enrollments come and go *)

InitChallenge ==
    /\ users = (1 :> UserRow("admin", "admin@x", None)
                @@ 2 :> UserRow("teacher", "teacher@x", None)
                @@ 3 :> UserRow("student", "three@x", "parent@x")
                @@ 4 :> UserRow("student", "four@x", None))
    /\ classrooms = (1 :> [teacher_id |-> 2] @@ 2 :> [teacher_id |-> 2])
    /\ enrollments = {EnrollmentRow(1, 3), EnrollmentRow(1, 4)}
    /\ projects = (1 :> ProjectRow(3, 1, 2) @@ 2 :> ProjectRow(3, 1, 2)
                   @@ 3 :> ProjectRow(3, 2, 2) @@ 4 :> ProjectRow(4, 1, 2))
    /\ challenges = (1 :> [classroom_id |-> 1, points |-> 10]
                     @@ 2 :> [classroom_id |-> 2, points |-> 5])
    /\ submissions = << >>
    /\ shares = {}
    /\ notifications = << >>
    /\ email_logs = << >>
    /\ outbox = {}
    /\ disk = << >>
    /\ response = NoResponse
    /\ inflight = NoRequests

\* ids no row of the Challenge table, of the Classroom table has
MissingChallengeId == Cardinality(DOMAIN challenges) + 1

MissingClassroomId == Cardinality(ClassroomIds) + 1

\* The enrollment forms are sent for student 3, for the teacher (who is no
\* student) and with no student selected; student 4 stays enrolled.

NextChallenge ==
    \/ \E u \in UserIds, c \in ClassroomIds \cup {MissingClassroomId},
          s \in {NULL, 2, 3} :
          add_student_to_classroom(u, c, s) /\ UNCHANGED inflight
    \/ \E u \in UserIds, c \in ClassroomIds \cup {MissingClassroomId},
          s \in {2, 3} :
          remove_student_from_classroom(u, c, s) /\ UNCHANGED inflight
    \/ \E u \in UserIds, ch \in DOMAIN challenges \cup {MissingChallengeId},
          p \in ProjectIds \cup {MissingProjectId} :
          submit_challenge(u, ch, p) /\ UNCHANGED inflight

SpecChallenge == InitChallenge /\ [][NextChallenge]_vars

\* the points of every enrollment of a student
PointsOf(student_id, table) ==
    {<<e.classroom_id, e.points>> : e \in {e \in table : e.student_id = student_id}}

\* C10: a submit_challenge request of a student who already has a
\* ChallengeSubmission for the challenge, with any project id, is rejected:
\* the ChallengeSubmission table is unchanged, the points of every enrollment
\* of the student are unchanged, and the answer is not "Challenge submitted!".
C10_SecondSubmissionRejected ==
    [][response'.handler = "submit_challenge" =>
          \A u \in UserIds, ch \in DOMAIN challenges,
             p \in ProjectIds \cup {MissingProjectId} :
             (/\ users[u].role = "student"
              /\ Submitted(ch, u)
              /\ submit_challenge(u, ch, p)) =>
                /\ submissions' = submissions
                /\ PointsOf(u, enrollments') = PointsOf(u, enrollments)
                /\ response'.flash # "Challenge submitted!"]_vars

\* reached: student 3 holds the 10 points of challenge 1, submitted with one
\* of the two projects, and a further request for it has just been refused
C10_Witness ==
    /\ response = Resp("submit_challenge", 302,
                       "You have already submitted this challenge")
    /\ Submitted(1, 3)
    /\ Len(submissions) = 1
    /\ \E e \in enrollments :
          e.student_id = 3 /\ e.classroom_id = 1 /\ e.points = 10

-----------------------------------------------------------------------------
(* Two submit_challenge requests at a time, their steps interleaved *)

\* the request slots: two requests can be in progress together
Requests == {1, 2}

InitSubmitRace ==
    /\ users = (1 :> UserRow("admin", "admin@x", None)
                @@ 2 :> UserRow("teacher", "teacher@x", None)
                @@ 3 :> UserRow("student", "three@x", "parent@x")
                @@ 4 :> UserRow("student", "four@x", None))
    /\ classrooms = (1 :> [teacher_id |-> 2] @@ 2 :> [teacher_id |-> 2])
    /\ enrollments = {EnrollmentRow(1, 3), EnrollmentRow(1, 4)}
    /\ projects = (1 :> ProjectRow(3, 1, 2) @@ 2 :> ProjectRow(3, 1, 2)
                   @@ 3 :> ProjectRow(3, 2, 2) @@ 4 :> ProjectRow(4, 1, 2))
    /\ challenges = (1 :> [classroom_id |-> 1, points |-> 10]
                     @@ 2 :> [classroom_id |-> 2, points |-> 5])
    /\ submissions = << >>
    /\ shares = {}
    /\ notifications = << >>
    /\ email_logs = << >>
    /\ outbox = {}
    /\ disk = << >>
    /\ response = NoResponse
    /\ inflight = [r \in Requests |-> Idle]

NextSubmitRace ==
    \/ \E r \in Requests, u \in UserIds,
          ch \in DOMAIN challenges \cup {MissingChallengeId},
          p \in ProjectIds \cup {MissingProjectId} :
          submit_challenge_lookup(r, u, ch, p)
    \/ \E r \in Requests : submit_challenge_award(r)
    \/ \E r \in Requests : submit_challenge_commit(r)

SpecSubmitRace == InitSubmitRace /\ [][NextSubmitRace]_vars

\* the points of the challenges of a classroom a student has a submission for
RECURSIVE PointsDue(_, _, _)
PointsDue(chs, classroom_id, student_id) ==
    IF chs = {} THEN 0
    ELSE LET ch == CHOOSE c \in chs : TRUE IN
         (IF challenges[ch].classroom_id = classroom_id /\ Submitted(ch, student_id)
          THEN challenges[ch].points ELSE 0)
         + PointsDue(chs \ {ch}, classroom_id, student_id)

\* C11: at most one ChallengeSubmission per (challenge, student), and the
\* points of a challenge are added to the enrollment at most once, in every
\* state two interleaved submit_challenge requests can reach.
C11_OneSubmissionOneAward ==
    /\ \A ch \in DOMAIN challenges, u \in UserIds :
          Cardinality({i \in 1..Len(submissions) :
                          /\ submissions[i].challenge_id = ch
                          /\ submissions[i].student_id = u}) <= 1
    /\ \A e \in enrollments :
          e.points <= PointsDue(DOMAIN challenges, e.classroom_id, e.student_id)

\* the points alone: awarded twice for one challenge
C11_PointsAddedTwice ==
    \E e \in enrollments :
       e.points > PointsDue(DOMAIN challenges, e.classroom_id, e.student_id)

-----------------------------------------------------------------------------
(* upload_project, src/app.py:474-668 (POST) *)

ALLOWED_EXTENSIONS ==
    {"html", "zip", "css", "js", "png", "jpg", "jpeg", "gif", "svg", "json",
     "txt", "ico"}

ALLOWED_ZIP_EXTENSIONS == {"zip"}

\* filename.rsplit('.', 1)[1] for the file names the uploads carry; a name
\* without a dot ("notes", and the empty name) has no entry
Extension ==
    ("index.html" :> "html" @@ "main.html" :> "html" @@ "about.html" :> "html"
     @@ "home.html" :> "html"
     @@ "my page.html" :> "html" @@ "my_page.html" :> "html"
     @@ "PAGE.HTML" :> "HTML" @@ "style.css" :> "css" @@ "site.zip" :> "zip"
     @@ "run.exe" :> "exe")

allowed_file(filename) ==
    filename \in DOMAIN Extension
    /\ Lower(Extension[filename]) \in ALLOWED_EXTENSIONS

allowed_zip_file(filename) ==
    filename \in DOMAIN Extension
    /\ Lower(Extension[filename]) \in ALLOWED_ZIP_EXTENSIONS

\* werkzeug's secure_filename over these names: blanks become underscores
secure_filename(filename) ==
    IF filename = "my page.html" THEN "my_page.html" ELSE filename

\* file.endswith('.html'), for the last segment of a path
EndsWithHtml(path) ==
    /\ path # << >>
    /\ path[Len(path)] \in DOMAIN Extension
    /\ Extension[path[Len(path)]] = "html"

\* the directory a file lies in
DirOf(path) == SubSeq(path, 1, Len(path) - 1)

IsProperPrefix(a, b) == Len(a) < Len(b) /\ SubSeq(b, 1, Len(a)) = a

\* html_files of extract_zip_project: the files under extract_to ending in
\* '.html', as paths relative to it
HtmlFiles(files) == {f \in files : EndsWithHtml(f)}

\* html_files[0]: os.walk goes top-down and lists a directory in no fixed
\* order, so the first HTML file met is any one with no HTML file directly in
\* a directory above its own
FirstWalked(files) ==
    {f \in HtmlFiles(files) :
        \A g \in HtmlFiles(files) : ~IsProperPrefix(DirOf(g), DirOf(f))}

\* the values extract_zip_project can return for the files found under the
\* directory; NoPath for None
MainFiles(files) ==
    IF <<"index.html">> \in HtmlFiles(files) THEN {<<"index.html">>}
    ELSE IF <<"main.html">> \in HtmlFiles(files) THEN {<<"main.html">>}
    ELSE IF <<"home.html">> \in HtmlFiles(files) THEN {<<"home.html">>}
    ELSE IF HtmlFiles(files) # {} THEN FirstWalked(files)
    ELSE {NoPath}

\* the files of a directory, none when it does not exist
FilesIn(d, dir) == IF dir \in DOMAIN d THEN d[dir] ELSE {}

\* os.makedirs(dir, exist_ok=True) followed by the writes of `written`
WriteFiles(d, dir, written) ==
    [x \in DOMAIN d \cup {dir} |->
        IF x = dir THEN FilesIn(d, dir) \cup written ELSE d[x]]

\* os.remove of one file of a directory
RemoveFile(d, dir, file) == [d EXCEPT ![dir] = @ \ {file}]

\* shutil.rmtree(dir)
RemoveTree(d, dir) == [x \in DOMAIN d \ {dir} |-> d[x]]

\* The Assignment and Subject tables: id -> row.  No handler of the model
\* writes them.
Subjects == (1 :> [classroom_id |-> 1] @@ 2 :> [classroom_id |-> 2])

Assignments ==
    (1 :> [subject_id |-> 1, deadline |-> 100]
     @@ 2 :> [subject_id |-> 2, deadline |-> 100])

\* What the storage part of an upload (lines 525-627) comes to: "stored"
\* with the columns it set, "rejected" with the message flashed, "error"
\* when a write raised and the request ends in a 500; disk is the upload
\* folder as the request leaves it.
Stored(d, file_path, project_dir, main_file, scratch_link) ==
    [outcome |-> "stored", flash |-> None, disk |-> d, file_path |-> file_path,
     project_dir |-> project_dir, main_file |-> main_file,
     scratch_link |-> scratch_link]

Rejected(d, flash) ==
    [outcome |-> "rejected", flash |-> flash, disk |-> d, file_path |-> NoPath,
     project_dir |-> NoPath, main_file |-> NoPath, scratch_link |-> None]

StorageError(d) ==
    [outcome |-> "error", flash |-> None, disk |-> d, file_path |-> NoPath,
     project_dir |-> NoPath, main_file |-> NoPath, scratch_link |-> None]

\* upload_type == 'zip', lines 528-565.  fail_at = 1: zip_file.save raises;
\* a corrupt archive makes zipfile.ZipFile raise before anything is extracted.
StoreZip(d, current_user, zip_file, now, fail_at) ==
    IF ~zip_file.present
    THEN {Rejected(d, "No zip file uploaded")}
    ELSE IF zip_file.filename = ""
    THEN {Rejected(d, "No zip file selected")}
    ELSE IF ~allowed_zip_file(zip_file.filename)
    THEN {Rejected(d, "Invalid file type. Please upload a ZIP file.")}
    ELSE
      LET dir == ProjectDirName(current_user, now)
          zip_path == <<secure_filename(zip_file.filename)>>
          made == WriteFiles(d, dir, {})
          saved == WriteFiles(d, dir, {zip_path})
          extracted == WriteFiles(saved, dir, zip_file.members)
          cleaned == RemoveFile(extracted, dir, zip_path) IN
      IF fail_at = 1
      THEN {StorageError(made)}
      ELSE IF zip_file.corrupt
      THEN {StorageError(saved)}
      ELSE {IF main_file # NoPath
            THEN Stored(cleaned, NoPath, dir, main_file, None)
            ELSE Rejected(RemoveTree(cleaned, dir),
                          "No HTML files found in zip archive") :
               main_file \in MainFiles(extracted[dir])}

\* the files[] entries that are saved, in order, under their secured names
RECURSIVE SavedNames(_)
SavedNames(files) ==
    IF files = << >> THEN << >>
    ELSE (IF Head(files) # "" /\ allowed_file(Head(files))
          THEN <<secure_filename(Head(files))>> ELSE << >>)
         \o SavedNames(Tail(files))

\* html_files of the multiple upload, in order
RECURSIVE HtmlNames(_)
HtmlNames(names) ==
    IF names = << >> THEN << >>
    ELSE (IF EndsWithHtml(<<Head(names)>>) THEN <<Head(names)>> ELSE << >>)
         \o HtmlNames(Tail(names))

\* StoreMultiple taking the first HTML file of the list as the main file
StoreMultiple_first_html(d, current_user, files, now, fail_at) ==
    IF files = << >> \/ \A i \in 1..Len(files) : files[i] = ""
    THEN {Rejected(d, "No files selected")}
    ELSE
      LET dir == ProjectDirName(current_user, now)
          names == SavedNames(files)
          html_files == HtmlNames(names)
          written(n) == WriteFiles(d, dir, {<<names[i]>> : i \in 1..n}) IN
      IF fail_at \in 1..Len(names)
      THEN {StorageError(written(fail_at - 1))}
      ELSE IF html_files # << >>
      THEN {Stored(written(Len(names)), NoPath, dir, <<html_files[1]>>, None)}
      ELSE {Rejected(RemoveTree(written(Len(names)), dir),
                     "No HTML files found in upload")}

\* upload_type == 'multiple', lines 567-600.  fail_at = n: the n-th
\* file.save raises, the files before it are on the disk.
StoreMultiple(d, current_user, files, now, fail_at) ==
    IF files = << >> \/ \A i \in 1..Len(files) : files[i] = ""
    THEN {Rejected(d, "No files selected")}
    ELSE
      LET dir == ProjectDirName(current_user, now)
          names == SavedNames(files)
          html_files == HtmlNames(names)
          written(n) == WriteFiles(d, dir, {<<names[i]>> : i \in 1..n}) IN
      IF fail_at \in 1..Len(names)
      THEN {StorageError(written(fail_at - 1))}
      ELSE IF html_files # << >>
      THEN {Stored(written(Len(names)), NoPath, dir,
                   IF \E i \in 1..Len(html_files) : html_files[i] = "index.html"
                   THEN <<"index.html">> ELSE <<html_files[1]>>,
                   None)}
      ELSE {Rejected(RemoveTree(written(Len(names)), dir),
                     "No HTML files found in upload")}

\* the single file upload, lines 602-620.  fail_at = 1: file.save raises.
StoreSingle(d, current_user, file, now, fail_at) ==
    IF ~file.present
    THEN {Rejected(d, "No file uploaded")}
    ELSE IF file.filename = ""
    THEN {Rejected(d, "No file selected")}
    ELSE IF allowed_file(file.filename)
    THEN IF fail_at = 1
         THEN {StorageError(d)}
         ELSE LET filename == <<current_user, now, secure_filename(file.filename)>> IN
              {Stored(WriteFiles(d, UploadFolder, {filename}), filename,
                      NoPath, NoPath, None)}
    ELSE {Rejected(d, "Invalid file type. Allowed: HTML, CSS, JS, images, and other web assets.")}

\* lines 525-627 for the three project_type cases
StoreProject(d, current_user, form, now, fail_at) ==
    IF form.project_type = "html"
    THEN IF form.upload_type = "zip"
         THEN StoreZip(d, current_user, form.zip_file, now, fail_at)
         ELSE IF form.upload_type = "multiple"
         THEN StoreMultiple(d, current_user, form.files, now, fail_at)
         ELSE StoreSingle(d, current_user, form.file, now, fail_at)
    ELSE IF form.project_type = "scratch"
    THEN IF form.scratch_link = ""
         THEN {Rejected(d, "Scratch link is required")}
         ELSE {Stored(d, NoPath, NoPath, NoPath, form.scratch_link)}
    ELSE {Stored(d, NoPath, NoPath, NoPath, None)}

UploadResp(status, flash, created) ==
    [handler |-> "upload_project", status |-> status, flash |-> flash,
     created |-> created]

\* a bound: uploads are accepted until the Project table has this many rows
MaxProjects == 2

\* RejectUpload with the Project added and committed before the storage part
RejectUpload_after_commit(current_user, stored) ==
    /\ response' = UploadResp(302, stored.flash, NULL)
    /\ disk' = stored.disk
    /\ Cardinality(ProjectIds) < MaxProjects
    /\ projects' = [p \in ProjectIds \cup {Cardinality(ProjectIds) + 1} |->
                       IF p \in ProjectIds THEN projects[p]
                       ELSE ProjectRow(current_user, 1, NULL)]
    /\ UNCHANGED <<users, classrooms, enrollments, challenges, submissions,
                   shares, notifications, email_logs, outbox>>

\* flash(...) and return redirect(url_for('upload_project')) in the storage
\* part: the Project built at lines 512-523 was never added to the session
RejectUpload(current_user, stored) ==
    /\ response' = UploadResp(302, stored.flash, NULL)
    /\ disk' = stored.disk
    /\ UNCHANGED <<dbvars, outbox>>

\* the write of a request that raises: none or the first
FailPoints == 0..1

\* TargetClassroom taking the classroom from the form in every case
TargetClassroom_from_form(form) == form.classroom_id

\* lines 489-495: the classroom of the assignment's subject when the form
\* names an assignment, else the classroom_id of the form
TargetClassroom(form) ==
    IF form.assignment_id # NULL /\ form.assignment_id \in DOMAIN Assignments
    THEN Subjects[Assignments[form.assignment_id].subject_id].classroom_id
    ELSE form.classroom_id

upload_project(current_user, form, now) ==
    LET refuse(flash) ==
            /\ response' = UploadResp(302, flash, NULL)
            /\ UNCHANGED <<dbvars, outbox, disk>>
        for_assignment == form.assignment_id # NULL
        classroom_id == TargetClassroom(form)
        subject_id ==
            IF for_assignment /\ form.assignment_id \in DOMAIN Assignments
            THEN Assignments[form.assignment_id].subject_id
            ELSE NULL IN
    IF users[current_user].role \in {"teacher", "staff", "admin"}
    THEN refuse("Teachers and staff cannot upload projects")
    ELSE IF for_assignment /\ form.assignment_id \notin DOMAIN Assignments
    THEN refuse("Invalid assignment")
    ELSE IF ~Enrolled(classroom_id, current_user)
    THEN refuse("You are not enrolled in this classroom")
    ELSE
      \E stored \in UNION {StoreProject(disk, current_user, form, now, fail_at) :
                              fail_at \in FailPoints} :
        IF stored.outcome = "rejected"
        THEN RejectUpload(current_user, stored)
        ELSE IF stored.outcome = "error"
        THEN /\ response' = UploadResp(500, None, NULL)
             /\ disk' = stored.disk
             /\ UNCHANGED <<dbvars, outbox>>
        ELSE
          LET with_screenshot == allowed_image_file(form.screenshot)
              screenshot_path ==
                  IF with_screenshot
                  THEN ScreenshotName(current_user, now, form.screenshot)
                  ELSE NoPath
              project ==
                  [ProjectRow(current_user, classroom_id,
                              IF classroom_id \in ClassroomIds
                              THEN classrooms[classroom_id].teacher_id ELSE NULL)
                   EXCEPT !.project_type = form.project_type,
                          !.file_path = stored.file_path,
                          !.project_dir = stored.project_dir,
                          !.main_file = stored.main_file,
                          !.scratch_link = stored.scratch_link,
                          !.screenshot_path = screenshot_path,
                          !.subject_id = subject_id,
                          !.assignment_id = form.assignment_id,
                          !.is_student_created = ~for_assignment,
                          !.submitted_at = IF for_assignment THEN now ELSE NULL]
              id == Cardinality(ProjectIds) + 1 IN
          /\ disk' = IF with_screenshot
                     THEN WriteFiles(stored.disk, ScreenshotFolder, {screenshot_path})
                     ELSE stored.disk
          /\ IF form.project_type = None
             THEN \* project_type is NOT NULL: the commit fails, 500, rolled back
                  /\ response' = UploadResp(500, None, NULL)
                  /\ UNCHANGED <<dbvars, outbox>>
             ELSE /\ Cardinality(ProjectIds) < MaxProjects
                  /\ projects' = [p \in ProjectIds \cup {id} |->
                                     IF p = id THEN project ELSE projects[p]]
                  /\ response' = UploadResp(302,
                        IF ~for_assignment THEN None
                        ELSE IF now > Assignments[form.assignment_id].deadline
                        THEN "Project uploaded successfully! Note: This submission is late."
                        ELSE "Project uploaded successfully!",
                        id)
                  /\ UNCHANGED <<users, classrooms, enrollments, challenges,
                                 submissions, shares, notifications, email_logs,
                                 outbox>>

(***************************************************************************)
(* Uploads: a teacher and a student enrolled in classroom 1 post upload    *)
(* forms.  The student has uploaded index.html in a zip at second 100; the *)
(* clock of a later request may still show that second.                    *)
(***************************************************************************)
NoZip == [present |-> FALSE, filename |-> "", members |-> {}, corrupt |-> FALSE]

Zip(filename, members) ==
    [present |-> TRUE, filename |-> filename, members |-> members,
     corrupt |-> FALSE]

NoFile == [present |-> FALSE, filename |-> ""]

File(filename) == [present |-> TRUE, filename |-> filename]

\* the form of an HTML project for classroom 1 with no file part at all
EmptyForm ==
    [project_type |-> "html", assignment_id |-> NULL, classroom_id |-> 1,
     upload_type |-> "single", zip_file |-> NoZip, files |-> << >>,
     file |-> NoFile, scratch_link |-> "", screenshot |-> ""]

ZipForms ==
    {[EmptyForm EXCEPT !.upload_type = "zip", !.zip_file = z] :
        z \in {NoZip,
               [NoZip EXCEPT !.present = TRUE],
               Zip("run.exe", {<<"index.html">>}),
               Zip("site.zip", {<<"index.html">>}),
               Zip("site.zip", {<<"style.css">>}),
               [Zip("site.zip", {<<"index.html">>}) EXCEPT !.corrupt = TRUE]}}

MultipleForms ==
    {[EmptyForm EXCEPT !.upload_type = "multiple", !.files = f] :
        f \in {<< >>, <<"", "">>,
               <<"about.html", "index.html">>,
               <<"index.html", "about.html">>,
               <<"run.exe", "style.css">>}}

SingleForms ==
    {[EmptyForm EXCEPT !.file = f] :
        f \in {NoFile, File(""), File("index.html"), File("site.zip"), File("run.exe"),
               File("README")}}

OtherForms ==
    {[EmptyForm EXCEPT !.project_type = "scratch"],
     [EmptyForm EXCEPT !.project_type = "scratch",
                       !.scratch_link = "https://scratch.mit.edu/projects/1"],
     [EmptyForm EXCEPT !.project_type = "python"],
     [EmptyForm EXCEPT !.project_type = None],
     [EmptyForm EXCEPT !.project_type = "scratch", !.screenshot = "png",
                       !.scratch_link = "https://scratch.mit.edu/projects/1"],
     [EmptyForm EXCEPT !.file = File("index.html"), !.classroom_id = 2],
     [EmptyForm EXCEPT !.file = File("index.html"), !.assignment_id = 1],
     [EmptyForm EXCEPT !.file = File("index.html"), !.assignment_id = 1,
                       !.classroom_id = 2],
     [EmptyForm EXCEPT !.file = File("index.html"), !.assignment_id = 2],
     [EmptyForm EXCEPT !.file = File("index.html"), !.assignment_id = 9]}

UploadForms == ZipForms \cup MultipleForms \cup SingleForms \cup OtherForms

UploadTimes == {100, 101}

InitUpload ==
    /\ users = (1 :> UserRow("admin", "admin@x", None)
                @@ 2 :> UserRow("teacher", "teacher@x", None)
                @@ 3 :> UserRow("student", "three@x", "parent@x")
                @@ 4 :> UserRow("student", "four@x", None))
    /\ classrooms = (1 :> [teacher_id |-> 2] @@ 2 :> [teacher_id |-> 2])
    /\ enrollments = {EnrollmentRow(1, 3)}
    /\ projects =
          (1 :> [ProjectRow(3, 1, 2) EXCEPT
                    !.project_dir = ProjectDirName(3, 100),
                    !.main_file = <<"index.html">>])
    /\ disk = (ProjectDirName(3, 100) :> {<<"index.html">>}
               @@ UploadFolder :> {} @@ ScreenshotFolder :> {})
    /\ challenges = << >>
    /\ submissions = << >>
    /\ shares = {}
    /\ notifications = << >>
    /\ email_logs = << >>
    /\ outbox = {}
    /\ response = NoResponse
    /\ inflight = NoRequests

NextUpload ==
    \E current_user \in {2, 3}, form \in UploadForms, now \in UploadTimes :
        /\ current_user = 2 => form \in OtherForms
        /\ upload_project(current_user, form, now)
        /\ UNCHANGED inflight

SpecUpload == InitUpload /\ [][NextUpload]_vars

\* C12: an upload with upload_type=zip by an enrolled student whose archive
\* extracts without error and holds no file ending in '.html' is rejected:
\* no Project record is created and the directory of the upload does not
\* exist afterwards.
C12_ZipWithoutHtmlRejected ==
    [][response'.handler = "upload_project" /\ response'.status # 500 =>
          \A form \in ZipForms, now \in UploadTimes :
             (/\ form.zip_file.present
              /\ form.zip_file.filename # ""
              /\ allowed_zip_file(form.zip_file.filename)
              /\ HtmlFiles(form.zip_file.members) = {}
              /\ upload_project(3, form, now)) =>
                /\ response'.created = NULL
                /\ projects' = projects
                /\ ProjectDirName(3, now) \notin DOMAIN disk']_vars

\* C13: an accepted upload with upload_type=multiple whose file list holds
\* 'index.html' and other files, in any order, creates a project whose
\* main_file is 'index.html'.
C13_MultipleUploadPrefersIndex ==
    [][response'.handler = "upload_project" /\ response'.created # NULL =>
          \A form \in MultipleForms, now \in UploadTimes :
             (/\ Len(form.files) > 1
              /\ \E i \in 1..Len(form.files) : form.files[i] = "index.html"
              /\ upload_project(3, form, now)) =>
                projects'[response'.created].main_file = <<"index.html">>]_vars

\* reached: the upload of about.html and index.html at second 101 was
\* accepted, both files are in its directory and index.html is the main file
C13_Witness ==
    /\ response.handler = "upload_project"
    /\ response.created # NULL
    /\ projects[response.created].project_dir = ProjectDirName(3, 101)
    /\ projects[response.created].main_file = <<"index.html">>
    /\ disk[ProjectDirName(3, 101)] = {<<"about.html">>, <<"index.html">>}

\* the zip and multiple uploads that get as far as creating their directory
CreatesDirectory(form) ==
    \/ /\ form.upload_type = "zip"
       /\ form.zip_file.present
       /\ form.zip_file.filename # ""
       /\ allowed_zip_file(form.zip_file.filename)
    \/ /\ form.upload_type = "multiple"
       /\ \E i \in 1..Len(form.files) : form.files[i] # ""

\* C14: a zip or multiple upload that creates its directory and then fails,
\* by a rejection or by a storage error raised while saving or extracting,
\* creates no Project record and leaves no directory behind.
C14_FailedUploadLeavesNoDirectory ==
    [][response'.handler = "upload_project" /\ response'.created = NULL =>
          \A form \in ZipForms \cup MultipleForms, now \in UploadTimes :
             (/\ CreatesDirectory(form)
              /\ ProjectDirName(3, now) \notin DOMAIN disk
              /\ upload_project(3, form, now)) =>
                /\ projects' = projects
                /\ ProjectDirName(3, now) \notin DOMAIN disk']_vars

\* reached: the request ended in a 500 and the directory of second 101, never
\* the directory of a project, is on the disk with the saved archive in it
C14_DirectoryLeftBehind ==
    /\ response.handler = "upload_project"
    /\ response.status = 500
    /\ \A p \in ProjectIds : projects[p].project_dir # ProjectDirName(3, 101)
    /\ ProjectDirName(3, 101) \in DOMAIN disk
    /\ disk[ProjectDirName(3, 101)] = {<<"site.zip">>}

\* C15: a single-file upload is accepted only if the file is present, named
\* and has, ignoring case, one of the extensions html, css, js, png, jpg,
\* jpeg, gif, svg, json, txt, ico; a file of any other extension, 'zip'
\* included, creates no Project record.
C15_SingleUploadWebAssetsOnly ==
    [][response'.handler = "upload_project" /\ response'.created # NULL =>
          \A form \in SingleForms, now \in UploadTimes :
             upload_project(3, form, now) =>
                /\ form.file.present
                /\ form.file.filename \in DOMAIN Extension
                /\ Lower(Extension[form.file.filename]) \in
                      {"html", "css", "js", "png", "jpg", "jpeg", "gif",
                       "svg", "json", "txt", "ico"}]_vars

\* reached: a project whose stored file is the uploaded site.zip
C15_ZipStoredAsSingleFile ==
    /\ response.handler = "upload_project"
    /\ response.created # NULL
    /\ \E now \in UploadTimes :
          /\ projects[response.created].file_path = <<3, now, "site.zip">>
          /\ <<3, now, "site.zip">> \in disk[UploadFolder]

\* C16: every persisted Project has project_type html or scratch; an html
\* project has exactly one storage form (file_path, or project_dir together
\* with main_file) and no scratch_link; a scratch project has a scratch_link
\* and neither file_path nor project_dir nor main_file.
C16_ProjectTypeAndStorage ==
    \A p \in ProjectIds :
       LET single == projects[p].file_path # NoPath
           directory == projects[p].project_dir # NoPath
           main == projects[p].main_file # NoPath
           link == projects[p].scratch_link \notin {None, ""} IN
       \/ /\ projects[p].project_type = "html"
          /\ ~link
          /\ \/ single /\ ~directory /\ ~main
             \/ ~single /\ directory /\ main
       \/ /\ projects[p].project_type = "scratch"
          /\ link
          /\ ~single /\ ~directory /\ ~main

\* reached: the upload with project_type 'python' was accepted and its
\* Project has no storage of any form
C16_ProjectWithoutStorage ==
    /\ response.handler = "upload_project"
    /\ response.created # NULL
    /\ projects[response.created].project_type = "python"
    /\ projects[response.created].file_path = NoPath
    /\ projects[response.created].project_dir = NoPath
    /\ projects[response.created].scratch_link = None

\* the messages of the rejections of upload_project
UploadRejections ==
    {"You are not enrolled in this classroom", "Invalid assignment",
     "No zip file uploaded", "No zip file selected",
     "Invalid file type. Please upload a ZIP file.",
     "No HTML files found in zip archive",
     "No files selected", "No HTML files found in upload",
     "No file uploaded", "No file selected",
     "Invalid file type. Allowed: HTML, CSS, JS, images, and other web assets.",
     "Scratch link is required"}

\* C17: a rejected upload_project request (uploader not enrolled, unknown
\* assignment, missing or unnamed file, disallowed extension, no HTML file in
\* a multiple or zip upload, empty scratch link) leaves the set of Project
\* records and every existing record unchanged.
C17_RejectedUploadKeepsProjects ==
    [][(/\ response'.handler = "upload_project"
        /\ response'.flash \in UploadRejections) => projects' = projects]_vars

\* reached: after an accepted upload, a multiple upload without an HTML file
\* has been rejected and the table holds the two projects it held before
C17_Witness ==
    /\ response = UploadResp(302, "No HTML files found in upload", NULL)
    /\ Cardinality(ProjectIds) = 2
    /\ projects[2].project_type = "scratch"

-----------------------------------------------------------------------------
(* calculate_late_time, src/app.py:754-767 *)

\* the return value None
NotLate == << >>

\* f"{n} {unit}{'s' if plural else ''}" as the number and the word
Wording(n, unit, plural) ==
    <<n, IF unit = "day" THEN (IF plural THEN "days" ELSE "day")
         ELSE IF unit = "hour" THEN (IF plural THEN "hours" ELSE "hour")
         ELSE (IF plural THEN "minutes" ELSE "minute")>>

\* deadline and submitted_at in whole seconds; delta.days is the whole days
\* of delta, int(hours) its whole hours, int(hours % 24) the whole hours
\* left after the days, int(total_seconds / 60) its whole minutes
calculate_late_time(deadline, submitted_at) ==
    IF submitted_at <= deadline THEN NotLate
    ELSE LET delta == submitted_at - deadline
             days == delta \div 86400
             hours == delta \div 3600
             minutes == delta \div 60 IN
         IF days > 0
         THEN Wording(days, "day", days > 1)
              \o Wording(hours % 24, "hour", (hours % 24) # 1) \o <<"late">>
         ELSE IF delta >= 3600
         THEN Wording(hours, "hour", hours > 1) \o <<"late">>
         ELSE Wording(minutes, "minute", minutes > 1) \o <<"late">>

\* deadlines, and submission times around each change of wording
Deadlines == {0, 60, 3600, 86400}

Lateness ==
    {-86400, -1, 0, 1, 59, 60, 61, 119, 120, 3599, 3600, 3601, 7199, 7200,
     86399, 86400, 86401, 89999, 90000, 93600, 172799, 172800, 176400,
     180000, 259200}

InitLate ==
    /\ users = << >>
    /\ classrooms = << >>
    /\ enrollments = {}
    /\ projects = << >>
    /\ disk = << >>
    /\ challenges = << >>
    /\ submissions = << >>
    /\ shares = {}
    /\ notifications = << >>
    /\ email_logs = << >>
    /\ outbox = {}
    /\ inflight = NoRequests
    /\ response \in {r \in [handler : {"view_assignment"}, deadline : Deadlines,
                            submitted_at : {d + l : d \in Deadlines, l \in Lateness}] :
                         /\ r.submitted_at >= 0
                         /\ r.submitted_at - r.deadline \in Lateness}

NextLate ==
    /\ response.handler = "view_assignment"
    /\ response' = [handler |-> "calculate_late_time",
                    deadline |-> response.deadline,
                    submitted_at |-> response.submitted_at,
                    late_time |-> calculate_late_time(response.deadline,
                                                      response.submitted_at)]
    /\ UNCHANGED <<dbvars, outbox, disk, inflight>>

SpecLate == InitLate /\ [][NextLate]_vars

\* C18: calculate_late_time reports no lateness for a submission not after
\* the deadline; otherwise whole days and the remaining whole hours from 24
\* hours on, whole hours from one hour on and whole minutes below, each unit
\* word singular exactly when its number is 1 and plural for every other
\* number, 0 included.
C18_LateTimeWording ==
    response.handler = "calculate_late_time" =>
       LET d == response.submitted_at - response.deadline
           word(n, one, many) == <<n, IF n = 1 THEN one ELSE many>> IN
       response.late_time =
          IF d <= 0 THEN NotLate
          ELSE IF d >= 86400
          THEN word(d \div 86400, "day", "days")
               \o word((d % 86400) \div 3600, "hour", "hours") \o <<"late">>
          ELSE IF d >= 3600
          THEN word(d \div 3600, "hour", "hours") \o <<"late">>
          ELSE word(d \div 60, "minute", "minutes") \o <<"late">>

\* reached: a submission 59 seconds after the deadline is "0 minute late"
C18_ZeroMinuteLate ==
    /\ response.handler = "calculate_late_time"
    /\ response.submitted_at - response.deadline = 59
    /\ response.late_time = <<0, "minute", "late">>

-----------------------------------------------------------------------------
\* C19: for every project, viewer and visibility, a project_file or view_code
\* request whose relative path has a parent-directory segment '..' anywhere,
\* also when it normalizes to a path inside the project directory, is denied
\* and returns no file content.
C19_ParentSegmentDenied ==
    [][response'.handler \in {"project_file", "view_code"} =>
          \A u \in UserIds, p \in ProjectIds, path \in RequestPaths :
             (/\ \E i \in 1..Len(path) : path[i] = ".."
              /\ \/ project_file(u, p, path)
                 \/ \E readable \in BOOLEAN : view_code(u, p, path, readable)) =>
                /\ response'.status # 200
                /\ response'.file = NoPath]_vars

-----------------------------------------------------------------------------
(***************************************************************************)
(* The send form alone: the admin, the teacher and a student post it for  *)
(* either project with an address typed in any case, with blanks around   *)
(* it, or left empty.                                                     *)
(***************************************************************************)
InitEmail ==
    \E v1 \in {"public", "private", "classroom"} : ShareTables(v1, "classroom")

SubmittedEmails == {"", "  ", "parent@x", "PARENT@X", " parent@x ", "other@x"}

NextEmail ==
    \E u \in {1, 2, 3}, p \in ProjectIds \cup {MissingProjectId},
       submitted_email \in SubmittedEmails :
        send_project_email(u, p, submitted_email) /\ UNCHANGED inflight

SpecEmail == InitEmail /\ [][NextEmail]_vars

\* the request sent a message or wrote an EmailLog, ProjectShare or
\* ParentNotification
EmailRequestActed ==
    \/ outbox' # {}
    \/ email_logs' # email_logs
    \/ shares' # shares
    \/ notifications' # notifications

\* C20: for a project that is not public, send_project_email sends a
\* message or writes an EmailLog, ProjectShare or ParentNotification only if
\* the owning student has a registered parent_email and the submitted
\* address, with the blanks around it stripped, equals it ignoring case.
C20_OnlyToRegisteredParent ==
    [][response'.handler = "send_project_email" /\ EmailRequestActed =>
          \A u \in UserIds, p \in ProjectIds, e \in SubmittedEmails :
             (/\ projects[p].visibility # "public"
              /\ send_project_email(u, p, e)) =>
                /\ users[projects[p].student_id].parent_email # None
                /\ Lower(Strip(e))
                      = Lower(users[projects[p].student_id].parent_email)]_vars

\* C20 as stated: the submitted address itself equals the registered
\* parent_email ignoring case
C20_SubmittedAddressEqualsRegistered ==
    [][response'.handler = "send_project_email" /\ EmailRequestActed =>
          \A u \in UserIds, p \in ProjectIds, e \in SubmittedEmails :
             (/\ projects[p].visibility # "public"
              /\ send_project_email(u, p, e)) =>
                /\ users[projects[p].student_id].parent_email # None
                /\ Lower(e) = Lower(users[projects[p].student_id].parent_email)]_vars

\* reached: project 1 is not public and a message for it went to PARENT@X,
\* the registered address parent@x typed in capitals, and was logged
C20_Witness ==
    /\ response.handler = "send_project_email"
    /\ projects[1].visibility # "public"
    /\ \E m \in outbox : m.to = "PARENT@X" /\ m.project_id = 1
    /\ \E i \in 1..Len(email_logs) :
          /\ email_logs[i].parent_email = "PARENT@X"
          /\ email_logs[i].status = "sent"
    /\ SharesOf(1, 2) # {}

-----------------------------------------------------------------------------
\* C21: a request of a client that is not logged in, to an endpoint other
\* than the landing page, login and registration, returns no project's page;
\* here the request GET /share/<share_code>.
C21_AnonymousGetsNoProject ==
    [][response'.handler = "view_shared_project" =>
          \A share_code \in ShareCodes :
             view_shared_project(NULL, share_code) =>
                response'.status # 200]_vars

\* C22: for a viewer who is denied access to an existing project with
\* visibility 'private' or 'parents', the answer of view_project,
\* project_file and view_code is the answer the same request gets for a
\* project id that does not exist: every such step is also a step of the
\* request for the missing id.
C22_DeniedLooksLikeMissing ==
    [][response'.handler \in {"view_project", "project_file", "view_code"} =>
          \A u \in UserIds, p \in ProjectIds :
             (/\ projects[p].visibility \in {"private", "parents"}
              /\ ~check_project_access(u, p)) =>
                /\ view_project(u, p) => view_project(u, MissingProjectId)
                /\ \A path \in RequestPaths :
                      /\ project_file(u, p, path)
                            => project_file(u, MissingProjectId, path)
                      /\ \A readable \in BOOLEAN :
                            view_code(u, p, path, readable)
                               => view_code(u, MissingProjectId, path, readable)]_vars

\* reached: every project is private and the last request, a view_project,
\* was answered with the redirect and the access message, not with 404
C22_DeniedViewRedirects ==
    /\ response = Resp("view_project", 302,
                       "You do not have access to this project")
    /\ \A p \in ProjectIds : projects[p].visibility = "private"

-----------------------------------------------------------------------------
\* the uploads of index.html as a single file that name an existing assignment
AssignmentForms ==
    {form \in UploadForms :
        /\ form.assignment_id \in DOMAIN Assignments
        /\ form.project_type = "html" /\ form.upload_type = "single"
        /\ form.file = File("index.html")}

(***************************************************************************)
(* Assignment uploads: student 3 posts single html files, with and without *)
(* an assignment_id, for classrooms 1 and 2, while teacher 2 adds the      *)
(* student to a classroom and removes them from it.                        *)
(***************************************************************************)
SingleFileForms ==
    {form \in SingleForms \cup OtherForms :
        form.project_type = "html" /\ form.screenshot = ""}

NextAssignment ==
    \/ \E form \in SingleFileForms, now \in UploadTimes :
          upload_project(3, form, now) /\ UNCHANGED inflight
    \/ \E c \in ClassroomIds :
          add_student_to_classroom(2, c, 3) /\ UNCHANGED inflight
    \/ \E c \in ClassroomIds :
          remove_student_from_classroom(2, c, 3) /\ UNCHANGED inflight

SpecAssignment == InitUpload /\ [][NextAssignment]_vars

\* C23: an otherwise valid upload that names an existing assignment is
\* checked for enrollment in the classroom of the assignment's subject,
\* whatever classroom_id the form holds; when the student is enrolled there
\* it is accepted before and after the deadline, and the project gets that
\* classroom, the assignment's subject and submitted_at.
C23_AssignmentUpload ==
    [][response'.handler = "upload_project" /\ response'.status # 500 =>
          \A form \in AssignmentForms, now \in UploadTimes :
             upload_project(3, form, now) =>
                LET subject_id == Assignments[form.assignment_id].subject_id
                    classroom_id == Subjects[subject_id].classroom_id IN
                IF Enrolled(classroom_id, 3)
                THEN /\ response'.created # NULL
                     /\ projects'[response'.created].classroom_id = classroom_id
                     /\ projects'[response'.created].subject_id = subject_id
                     /\ projects'[response'.created].assignment_id
                           = form.assignment_id
                     /\ projects'[response'.created].submitted_at = now
                ELSE /\ response'.flash = "You are not enrolled in this classroom"
                     /\ projects' = projects]_vars

\* reached: the upload for assignment 1 at second 101, after the deadline,
\* was accepted as a late submission for classroom 1 and subject 1
C23_Witness ==
    /\ response.handler = "upload_project"
    /\ response.created # NULL
    /\ response.flash
          = "Project uploaded successfully! Note: This submission is late."
    /\ projects[response.created].assignment_id = 1
    /\ projects[response.created].classroom_id = 1
    /\ projects[response.created].subject_id = 1
    /\ projects[response.created].submitted_at = 101
    /\ 101 > Assignments[1].deadline

-----------------------------------------------------------------------------
(***************************************************************************)
(* Uploads and settings: student 3 uploads single files and Scratch links, *)
(* and the admin, the owner and another student post the settings form.    *)
(***************************************************************************)
SettingsUploads ==
    {form \in SingleForms \cup OtherForms :
        /\ form.assignment_id = NULL
        /\ form.classroom_id = 1
        /\ form.screenshot = ""
        /\ form.project_type \in {"html", "scratch"}
        /\ form.file \in {NoFile, File("index.html")}}

NextVisibility ==
    \/ \E form \in SettingsUploads, now \in UploadTimes :
          upload_project(3, form, now) /\ UNCHANGED inflight
    \/ \E u \in {1, 3, 4}, p \in ProjectIds \cup {MissingProjectId},
          visibility \in KnownVisibility \cup UnknownVisibility,
          tagged \in {NULL, 2} :
          project_settings(u, p, visibility, tagged, "", 100) /\ UNCHANGED inflight

SpecVisibility == InitUpload /\ [][NextVisibility]_vars

\* C24: in every state reached by upload_project and project_settings
\* requests, every project's visibility is one of 'classroom', 'public',
\* 'private', 'parents'.
C24_VisibilityIsKnown ==
    \A p \in ProjectIds : projects[p].visibility \in KnownVisibility

\* reached: the settings form was accepted and left a project uploaded by
\* student 3 with a visibility that is none of the four
C24_UnknownVisibilityStored ==
    /\ response = Resp("project_settings", 302,
                       "Project settings updated successfully!")
    /\ \E p \in ProjectIds :
          /\ p > 1
          /\ projects[p].student_id = 3
          /\ projects[p].visibility \in UnknownVisibility

-----------------------------------------------------------------------------
(***************************************************************************)
(* Zip uploads alone: archives with HTML files at the root and in a       *)
(* subdirectory.                                                           *)
(***************************************************************************)
NestedZipForms ==
    {[EmptyForm EXCEPT !.upload_type = "zip", !.zip_file = Zip("site.zip", members)] :
        members \in {{<<"about.html">>, <<"main.html">>},
                     {<<"about.html">>, <<"home.html">>, <<"style.css">>},
                     {<<"about.html">>, <<"docs", "index.html">>},
                     {<<"docs", "about.html">>, <<"docs", "main.html">>},
                     {<<"home.html">>, <<"main.html">>, <<"docs", "about.html">>}}}

NextZip ==
    \E form \in ZipForms \cup NestedZipForms, now \in UploadTimes :
        upload_project(3, form, now) /\ UNCHANGED inflight

SpecZip == InitUpload /\ [][NextZip]_vars

\* the HTML files of a tree with the given file name, at any depth
HtmlNamed(files, name) == {f \in HtmlFiles(files) : f[Len(f)] = name}

\* C25: the main file of a zip upload extracted into a new directory is the
\* file named index.html if the tree holds one at any depth, else the file
\* named main.html, else the file named home.html, else the first HTML file
\* met by the directory walk.
C25_ZipMainFileAtAnyDepth ==
    [][response'.handler = "upload_project" /\ response'.created # NULL =>
          \A form \in ZipForms \cup NestedZipForms, now \in UploadTimes :
             (/\ ProjectDirName(3, now) \notin DOMAIN disk
              /\ upload_project(3, form, now)) =>
                LET tree == form.zip_file.members IN
                projects'[response'.created].main_file \in
                   IF HtmlNamed(tree, "index.html") # {}
                   THEN HtmlNamed(tree, "index.html")
                   ELSE IF HtmlNamed(tree, "main.html") # {}
                   THEN HtmlNamed(tree, "main.html")
                   ELSE IF HtmlNamed(tree, "home.html") # {}
                   THEN HtmlNamed(tree, "home.html")
                   ELSE FirstWalked(tree)]_vars

\* reached: the archive with about.html and docs/index.html was extracted
\* into the new directory of second 101 and about.html is the main file
C25_NestedIndexPassedOver ==
    /\ response.handler = "upload_project"
    /\ response.created # NULL
    /\ projects[response.created].project_dir = ProjectDirName(3, 101)
    /\ projects[response.created].main_file = <<"about.html">>
    /\ disk[ProjectDirName(3, 101)] = {<<"about.html">>, <<"docs", "index.html">>}

-----------------------------------------------------------------------------
\* the projects stored as a directory
DirectoryProjects == {p \in ProjectIds : projects[p].project_dir # NoPath}

\* C26: every project with a project_dir owns that directory alone: no other
\* project has the same project_dir, the directory exists and holds the
\* project's main_file, and no later upload, accepted or rejected, at any
\* clock value, adds or removes files in it.
C26_ProjectOwnsDirectory ==
    [][/\ \A p \in DirectoryProjects' :
             /\ \A q \in DirectoryProjects' :
                   q # p => projects'[q].project_dir # projects'[p].project_dir
             /\ projects'[p].project_dir \in DOMAIN disk'
             /\ projects'[p].main_file \in disk'[projects'[p].project_dir]
       /\ \A p \in DirectoryProjects :
             projects[p].project_dir \in DOMAIN disk =>
                /\ projects[p].project_dir \in DOMAIN disk'
                /\ disk'[projects[p].project_dir]
                      = disk[projects[p].project_dir]]_vars

\* reached: two projects of student 3 with the same project_dir, the second
\* uploaded in the clock second of the first
C26_SharedDirectory ==
    /\ response.handler = "upload_project"
    /\ response.created = 2
    /\ projects[1].project_dir = ProjectDirName(3, 100)
    /\ projects[2].project_dir = ProjectDirName(3, 100)

\* reached: a rejected upload has removed the directory of project 1
C26_DirectoryRemoved ==
    /\ response = UploadResp(302, "No HTML files found in upload", NULL)
    /\ projects[1].project_dir \notin DOMAIN disk

-----------------------------------------------------------------------------
(***************************************************************************)
(* E-mails and settings: the admin and the teacher send a project to an   *)
(* address or to all parents, the admin and the owner change visibility.  *)
(***************************************************************************)
NextNotify ==
    \/ \E u \in {1, 2}, p \in ProjectIds, parent_email \in RequestEmails :
          send_project_email(u, p, parent_email) /\ UNCHANGED inflight
    \/ \E u \in {1, 2}, p \in ProjectIds :
          send_bulk_email(u, p) /\ UNCHANGED inflight
    \/ \E u \in {1, 3}, p \in ProjectIds,
          visibility \in {"classroom", "public", "parents"} :
          project_settings(u, p, visibility, NULL, "", 100) /\ UNCHANGED inflight

SpecNotify == InitShare /\ [][NextNotify]_vars

\* the parent account is the registered parent of the project's student
RegisteredParent(parent_id, project_id) ==
    users[parent_id].email = users[projects[project_id].student_id].parent_email

\* C27: every ParentNotification for a project belongs to a parent account
\* whose email is the parent_email registered for the project's student, so
\* a parent passes check_project_access for a 'classroom' or 'parents'
\* project only if they are the owner's registered parent.
C27_NotifiedParentIsRegistered ==
    /\ \A i \in 1..Len(notifications) :
          RegisteredParent(notifications[i].parent_id, notifications[i].project_id)
    /\ \A u \in UserIds, p \in ProjectIds :
          (/\ users[u].role = "parent"
           /\ projects[p].visibility \in {"classroom", "parents"}
           /\ check_project_access(u, p)) => RegisteredParent(u, p)

\* reached: project 1 has visibility 'classroom' and the parent account
\* other@x, not the address registered for student 3, passes the access check
C27_OtherParentHasAccess ==
    /\ projects[1].visibility = "classroom"
    /\ users[6].role = "parent"
    /\ ~RegisteredParent(6, 1)
    /\ check_project_access(6, 1)

-----------------------------------------------------------------------------
(***************************************************************************)
(* Notifications and share links: the teacher and the admin share and     *)
(* send a project, the parents open their notifications and share links.  *)
(***************************************************************************)
NextNotificationLink ==
    \/ \E u \in {1, 2}, p \in ProjectIds :
          share_project_with_parents(u, p, "parents") /\ UNCHANGED inflight
    \/ \E u \in {1, 2}, p \in ProjectIds, parent_email \in {"parent@x"} :
          send_project_email(u, p, parent_email) /\ UNCHANGED inflight
    \/ \E u \in {2, 5, 6}, notification_id \in 1..(Len(notifications) + 1) :
          view_parent_notification(u, notification_id) /\ UNCHANGED inflight
    \/ \E u \in {5}, share_code \in ShareCodes :
          view_shared_project(u, share_code) /\ UNCHANGED inflight

SpecNotificationLink == InitShare /\ [][NextNotificationLink]_vars

\* C28: every ParentNotification whose share_code is set names the code of
\* an existing ProjectShare of the same project, also after the teacher has
\* regenerated the code, so view_parent_notification never redirects a
\* parent to a share link that answers not-found.
C28_NotificationCodeIsLive ==
    /\ \A i \in 1..Len(notifications) :
          notifications[i].share_code # None =>
             \E share \in SharesWithCode(notifications[i].share_code) :
                share.project_id = notifications[i].project_id
    /\ (/\ response.handler = "view_parent_notification"
        /\ "location" \in DOMAIN response
        /\ response.location[1] = "share")
          => SharesWithCode(response.location[2]) # {}

\* reached: view_parent_notification has redirected the parent to the link
\* of a share code that no ProjectShare holds any more
C28_RedirectToDeadLink ==
    /\ response.handler = "view_parent_notification"
    /\ "location" \in DOMAIN response
    /\ response.location[1] = "share"
    /\ SharesWithCode(response.location[2]) = {}
    /\ \E i \in 1..Len(notifications) :
          /\ notifications[i].share_code = response.location[2]
          /\ notifications[i].viewed

-----------------------------------------------------------------------------
\* C29: a ProjectShare of a project is created or given a new code only by
\* a user for whom check_project_access on the project is true at that
\* moment; a classroom's teacher gets no working share code for a private
\* project of the classroom.
C29_ShareOnlyByViewer ==
    [][\A share \in shares' \ shares :
          check_project_access(share.teacher_id, share.project_id)]_vars

\* reached: project 1 is private, its classroom's teacher, who may not view
\* it, holds a share of it, and the link of that share has answered with the
\* project
C29_TeacherSharesPrivateProject ==
    /\ projects[1].visibility = "private"
    /\ users[2].role = "teacher"
    /\ ~check_project_access(2, 1)
    /\ \E share \in SharesOf(1, 2) :
          /\ SharesWithCode(share.share_code) = {share}
          /\ response = [handler |-> "view_shared_project", status |-> 200,
                         flash |-> None, project |-> 1]

-----------------------------------------------------------------------------
\* the sum of points_awarded over the first n ChallengeSubmissions that the
\* student made for challenges of the classroom
RECURSIVE AwardedPoints(_, _, _)
AwardedPoints(n, classroom_id, student_id) ==
    IF n = 0 THEN 0
    ELSE (IF /\ submissions[n].student_id = student_id
             /\ challenges[submissions[n].challenge_id].classroom_id = classroom_id
          THEN submissions[n].points_awarded ELSE 0)
         + AwardedPoints(n - 1, classroom_id, student_id)

\* C30: in every state reached by add_student_to_classroom,
\* remove_student_from_classroom and submit_challenge requests, the points of
\* each enrollment equal the sum of points_awarded over the student's
\* ChallengeSubmissions for challenges of that classroom.
C30_PointsAreSumOfAwards ==
    \A e \in enrollments :
       e.points = AwardedPoints(Len(submissions), e.classroom_id, e.student_id)

\* reached: student 3 is enrolled in classroom 1 with 0 points and has a
\* ChallengeSubmission for challenge 1 of that classroom awarded 10 points
C30_PointsLostOnReenrollment ==
    /\ response.handler = "add_student_to_classroom"
    /\ \E e \in enrollments :
          e.classroom_id = 1 /\ e.student_id = 3 /\ e.points = 0
    /\ \E i \in 1..Len(submissions) :
          /\ submissions[i].student_id = 3
          /\ submissions[i].challenge_id = 1
          /\ submissions[i].points_awarded = 10

====
